---- MODULE Spec2Model ----
(***************************************************************************)
(* Fault-injection orchestration of chaos-mesh (LGU-SE-Internal fork):     *)
(* the EnvoyChaos implementation (service-level proxy-config object), the  *)
(* RuntimeMutatorChaos implementation with the daemon's                    *)
(* InstallRuntimeMutator / UninstallRuntimeMutator handlers, the daemon's  *)
(* InstallJVMRules / UninstallJVMRules handlers with their caller, and the *)
(* Record/Phase engine that drives Apply and Recover over the Records of   *)
(* a resource.                                                             *)
(***************************************************************************)
EXTENDS Integers, Sequences, FiniteSets, TLC

VARIABLES
    chaos,      \* resource id -> the declared resource (kind, metadata, spec)
    records,    \* resource id -> [index -> Phase]       (Status.Records)
    idx,        \* resource id -> index of the next Record of the running reconcile
    stopping,   \* resource id -> duration elapsed
    deleted,    \* resource id -> deletion requested
    finalizer,  \* resource id -> finalizer still present (resource not released)
    configs,    \* the CiliumEnvoyConfig objects of the cluster
    target,     \* resource id -> [index -> the container behind the Record]
    pending,    \* resource id -> [index -> Injected recorded and not yet recovered]
    last,       \* the Apply/Recover call of the latest step (NoCall when it made none)
    gen,        \* result of the last generateFaultConfig evaluation
    host,       \* the daemon host as GrantAccess finds it, and what GrantAccess did
    sel,        \* a target inventory with a selector, and the targets resolved from it
    adm,        \* a resource spec under admission: its defaulting and validation
    probe,      \* the process tree of a container, and the install request run on it
    worker,     \* reconcile worker -> the resource it is reconciling ("" when idle)
    inflight    \* the Apply/Recover calls that have started and not yet returned

engineVars ==
    <<chaos, records, idx, stopping, deleted, finalizer, configs, target, pending, last>>

\* What the reconciles of one resource at a time leave alone.
aside == <<gen, host, sel, adm, probe, worker, inflight>>

vars == <<engineVars, aside>>

----------------------------------------------------------------------------
(* Bounds *)

NumRecords == 2

Index == 0 .. (NumRecords - 1)

NumWorkers == 2

\* lines of /proc/<pid>/cgroup
MaxLines == 2

Workers == 1 .. NumWorkers

----------------------------------------------------------------------------
(* v1alpha1 values *)

Nil == "nil"

NotInjected == "Not Injected"

Injected == "Injected"

EnvoyFaultAction == "fault"

EnvoyDelayAction == "delay"

EnvoyAbortAction == "abort"

RuntimeMutatorConstantAction == "constant"

RuntimeMutatorOperatorAction == "operator"

RuntimeMutatorStringAction == "string"

\* +kubebuilder:validation:Enum=fault;delay;abort
EnvoyActions == {EnvoyFaultAction, EnvoyDelayAction, EnvoyAbortAction}

\* +kubebuilder:validation:Enum=constant;operator;string
RuntimeMutatorActions ==
    {RuntimeMutatorConstantAction, RuntimeMutatorOperatorAction, RuntimeMutatorStringAction}

\* Where a transient infrastructure failure strikes during one call.
EnvoyFailPoints == {"none", "create", "update", "get", "delete"}

MutatorFailPoints == {"none", "decode", "daemon", "tool", "response"}

----------------------------------------------------------------------------
(* EnvoyChaos: generateFaultConfig *)

\* A Go pointer field: None for nil, Some(v) for a pointer to v.
None == <<>>

Some(v) == <<v>>

IsSome(o) == o # None

Val(o) == o[1]

\* Variant with the precedence reversed: the resource-level percentage wins.
PercentageOf_ResourceFirst(spec, kindCfg) ==
    IF IsSome(spec.Percentage) THEN spec.Percentage ELSE kindCfg.Percentage

\* percentage := Spec.Percentage; if kind.Percentage != nil { percentage = kind.Percentage }
PercentageOf(spec, kindCfg) ==
    IF IsSome(kindCfg.Percentage) THEN kindCfg.Percentage ELSE spec.Percentage

\* The "percentage" entry: numerator int(*percentage), denominator HUNDRED; None when not emitted.
PercentageEntry(p) ==
    IF IsSome(p) THEN Some([numerator |-> Val(p), denominator |-> "HUNDRED"]) ELSE None

\* Variant that leaves the delay out of an abort action.
DelaySection_ByAction(spec) ==
    IF spec.Action # EnvoyAbortAction /\ IsSome(spec.Delay)
           /\ IsSome(Val(spec.Delay).FixedDelay)
    THEN Some([fixedDelay |-> Val(Val(spec.Delay).FixedDelay),
               percentage |-> PercentageEntry(PercentageOf(spec, Val(spec.Delay)))])
    ELSE None

DelaySection(spec) ==
    IF IsSome(spec.Delay) /\ IsSome(Val(spec.Delay).FixedDelay)
    THEN Some([fixedDelay |-> Val(Val(spec.Delay).FixedDelay),
               percentage |-> PercentageEntry(PercentageOf(spec, Val(spec.Delay)))])
    ELSE None

\* Variant that emits every status code that is set.
AbortSection_EveryStatus(spec) ==
    IF IsSome(spec.Abort)
    THEN Some([grpcStatus |-> Val(spec.Abort).GrpcStatus,
               httpStatus |-> Val(spec.Abort).HTTPStatus,
               percentage |-> PercentageEntry(PercentageOf(spec, Val(spec.Abort)))])
    ELSE None

AbortSection(spec) ==
    IF IsSome(spec.Abort)
    THEN LET abort == Val(spec.Abort)
             grpc  == spec.Protocol = "grpc" /\ IsSome(abort.GrpcStatus)
         IN  Some([grpcStatus |-> IF grpc THEN abort.GrpcStatus ELSE None,
                   httpStatus |-> IF ~grpc /\ IsSome(abort.HTTPStatus)
                                  THEN abort.HTTPStatus ELSE None,
                   percentage |-> PercentageEntry(PercentageOf(spec, abort))])
    ELSE None

generateFaultConfig(spec) ==
    [name |-> "envoy.filters.http.fault",
     delay |-> DelaySection(spec),
     abort |-> AbortSection(spec),
     upstreamCluster |-> spec.TargetService]

----------------------------------------------------------------------------
(* EnvoyChaos: the cluster API client, as the implementation uses it *)

Key(o) == <<o.namespace, o.name>>

Exists(cfgs, key) == \E o \in cfgs : Key(o) = key

ClientCreate(cfgs, obj, fail) ==
    IF fail = "create" THEN [err |-> "Transient", configs |-> cfgs]
    ELSE IF Exists(cfgs, Key(obj)) THEN [err |-> "AlreadyExists", configs |-> cfgs]
    ELSE [err |-> Nil, configs |-> cfgs \cup {obj}]

ClientUpdate(cfgs, obj, fail) ==
    IF fail = "update" THEN [err |-> "Transient", configs |-> cfgs]
    ELSE IF ~Exists(cfgs, Key(obj)) THEN [err |-> "NotFound", configs |-> cfgs]
    ELSE [err |-> Nil, configs |-> {o \in cfgs : Key(o) # Key(obj)} \cup {obj}]

ClientGet(cfgs, key, fail) ==
    IF fail = "get" THEN [err |-> "Transient"]
    ELSE IF ~Exists(cfgs, key) THEN [err |-> "NotFound"]
    ELSE [err |-> Nil]

ClientDelete(cfgs, key, fail) ==
    IF fail = "delete" THEN [err |-> "Transient", configs |-> cfgs]
    ELSE IF ~Exists(cfgs, key) THEN [err |-> "NotFound", configs |-> cfgs]
    ELSE [err |-> Nil, configs |-> {o \in cfgs : Key(o) # key}]

----------------------------------------------------------------------------
(* EnvoyChaos: Impl (service level) *)

\* serviceNamespace := Namespace; TargetNamespace, then EnvoyConfigNamespace, override it
ServiceNamespace(c) ==
    IF c.Spec.TargetNamespace # "" THEN c.Spec.TargetNamespace
    ELSE IF c.Spec.EnvoyConfigNamespace # "" THEN c.Spec.EnvoyConfigNamespace
    ELSE c.Namespace

\* configName := fmt.Sprintf("chaos-%s", envoychaos.Name)
ConfigName(c) == "chaos-" \o c.Name

buildCiliumEnvoyConfig(id, c, configName, configNamespace, faultConfig) ==
    [namespace |-> configNamespace,
     name      |-> configName,
     chaos     |-> c.Name,
     owner     |-> id,
     service   |-> c.Spec.TargetService,
     fault     |-> faultConfig]

\* Variant that creates only: an object already present is an error.
applyEnvoyConfigForService_CreateOnly(cfgs, id, c, serviceNamespace, fail) ==
    ClientCreate(cfgs, buildCiliumEnvoyConfig(id, c, ConfigName(c), serviceNamespace,
                                              generateFaultConfig(c.Spec)), fail)

applyEnvoyConfigForService(cfgs, id, c, serviceNamespace, fail) ==
    LET config == buildCiliumEnvoyConfig(id, c, ConfigName(c), serviceNamespace,
                                         generateFaultConfig(c.Spec))
        created == ClientCreate(cfgs, config, fail)
        updated == ClientUpdate(cfgs, config, fail)
    IN  IF created.err = Nil THEN created
        ELSE IF created.err = "AlreadyExists" THEN updated
        ELSE created

\* Variant that looks the object up in the resource's own namespace.
removeEnvoyConfig_OwnNamespace(cfgs, c, serviceNamespace, fail) ==
    LET key == <<c.Namespace, ConfigName(c)>>
        got == ClientGet(cfgs, key, fail)
    IN  IF got.err # Nil THEN [err |-> got.err, configs |-> cfgs]
        ELSE ClientDelete(cfgs, key, fail)

removeEnvoyConfig(cfgs, c, serviceNamespace, fail) ==
    LET key == <<serviceNamespace, ConfigName(c)>>
        got == ClientGet(cfgs, key, fail)
    IN  IF got.err # Nil THEN [err |-> got.err, configs |-> cfgs]
        ELSE ClientDelete(cfgs, key, fail)

\* What a call returns: the Phase, the error (Nil for none) and the state it leaves.
\* "seen" is the error the cluster API reported to the call, swallowed or not.
EnvoyApply(cfgs, id, c, index, fail) ==
    IF index > 0
    THEN [phase |-> Injected, err |-> Nil, seen |-> Nil, configs |-> cfgs]
    ELSE IF c.Spec.TargetService = ""
    THEN [phase |-> NotInjected, err |-> "Validation", seen |-> Nil, configs |-> cfgs]
    ELSE LET r == applyEnvoyConfigForService(cfgs, id, c, ServiceNamespace(c), fail)
         IN  IF r.err # Nil
             THEN [phase |-> NotInjected, err |-> r.err, seen |-> r.err, configs |-> r.configs]
             ELSE [phase |-> Injected, err |-> Nil, seen |-> Nil, configs |-> r.configs]

\* Variant that removes the object on the Recover of every Record.
EnvoyRecover_EveryIndex(cfgs, id, c, index, fail) ==
    IF c.Spec.TargetService = ""
    THEN [phase |-> NotInjected, err |-> "Validation", seen |-> Nil, configs |-> cfgs]
    ELSE LET r == removeEnvoyConfig(cfgs, c, ServiceNamespace(c), fail)
         IN  IF r.err # Nil
             THEN IF r.err = "NotFound"
                  THEN [phase |-> NotInjected, err |-> Nil, seen |-> r.err, configs |-> r.configs]
                  ELSE [phase |-> Injected, err |-> r.err, seen |-> r.err, configs |-> r.configs]
             ELSE [phase |-> NotInjected, err |-> Nil, seen |-> Nil, configs |-> r.configs]

EnvoyRecover(cfgs, id, c, index, fail) ==
    IF index > 0
    THEN [phase |-> NotInjected, err |-> Nil, seen |-> Nil, configs |-> cfgs]
    ELSE IF c.Spec.TargetService = ""
    THEN [phase |-> NotInjected, err |-> "Validation", seen |-> Nil, configs |-> cfgs]
    ELSE LET r == removeEnvoyConfig(cfgs, c, ServiceNamespace(c), fail)
         IN  IF r.err # Nil
             THEN IF r.err = "NotFound"
                  THEN [phase |-> NotInjected, err |-> Nil, seen |-> r.err, configs |-> r.configs]
                  ELSE [phase |-> Injected, err |-> r.err, seen |-> r.err, configs |-> r.configs]
             ELSE [phase |-> NotInjected, err |-> Nil, seen |-> Nil, configs |-> r.configs]

----------------------------------------------------------------------------
(* Chaos daemon: InstallRuntimeMutator / UninstallRuntimeMutator *)

\* A container is [proc, net, agent, helper, rule]: proc is "java" (a process whose
\* comm is java runs in it), "nojava" (it runs, without such a process) or "gone" (it
\* no longer exists); net is "own" (the container has a network namespace of its
\* own) or "shared" (it runs in the daemon's network namespace); agent is "none",
\* "active" (mutation agent, mutations enabled), "disabled" (mutation agent,
\* mutations disabled) or "attached" (rule agent listening); helper and rule tell
\* whether the helper jar and the rule script are loaded in the agent.

\* if req.EnterNS { processBuilder = processBuilder.SetNS(pid, bpm.NetNS) }: the
\* command reaches the loopback-bound control port of the container's agent when it
\* is bound into the container's network namespace or already runs in it.
ReachesControlPort(t, req) == req.EnterNS \/ t.net = "shared"

\* What one handler call did: the error it returned, the combined output of its
\* install command and of its last other command ("" for a command that succeeded
\* or was not run), and the external commands it ran, in order.
Handled(err, install, output, steps) ==
    [called |-> TRUE, err |-> err, install |-> install, output |-> output, steps |-> steps]

\* No handler was called.
NoDaemon ==
    [called |-> FALSE, err |-> Nil, install |-> "", output |-> "", steps |-> <<>>]

\* s.crClient.GetPidFromContainerID
GetPidFromContainerID(t, fail) ==
    IF t.proc = "gone" THEN "NotFound"
    ELSE IF fail = "daemon" THEN "Transient"
    ELSE Nil

\* the loop over root PID and descendants reading each comm name: javaPid != 0
FindJavaPid(t) == t.proc = "java"

InstallRuntimeMutator(t, req, fail) ==
    LET pidErr == GetPidFromContainerID(t, fail)
    IN  IF pidErr # Nil
        THEN [success |-> FALSE, err |-> pidErr, target |-> t,
              daemon |-> Handled(pidErr, "", "", <<>>)]
        ELSE IF ~FindJavaPid(t)
        THEN [success |-> FALSE, err |-> "NoJavaProcess", target |-> t,
              daemon |-> Handled("NoJavaProcess", "", "", <<>>)]
        ELSE IF fail = "tool"
        THEN [success |-> FALSE, err |-> "Tool", target |-> t,
              daemon |-> Handled("Tool", "attach failed", "", <<"jattach">>)]
        ELSE [success |-> TRUE, err |-> Nil, target |-> [t EXCEPT !.agent = "active"],
              daemon |-> Handled(Nil, "", "", <<"jattach">>)]

UninstallRuntimeMutator(t, req, fail) ==
    LET pidErr == GetPidFromContainerID(t, fail)
    IN  IF pidErr # Nil
        THEN [err |-> pidErr, target |-> t, daemon |-> Handled(pidErr, "", "", <<>>)]
        ELSE IF ~FindJavaPid(t)
        THEN [err |-> "NoJavaProcess", target |-> t,
              daemon |-> Handled("NoJavaProcess", "", "", <<>>)]
        \* curl fails and its output contains "Connection refused": not an error
        ELSE IF t.agent = "none" \/ ~ReachesControlPort(t, req)
        THEN [err |-> Nil, target |-> t,
              daemon |-> Handled(Nil, "", "Connection refused", <<"curl">>)]
        ELSE IF fail = "tool"
        THEN [err |-> "Tool", target |-> t,
              daemon |-> Handled("Tool", "", "request failed", <<"curl">>)]
        ELSE [err |-> Nil, target |-> [t EXCEPT !.agent = "disabled"],
              daemon |-> Handled(Nil, "", "", <<"curl">>)]

----------------------------------------------------------------------------
(* Chaos daemon: InstallJVMRules / UninstallJVMRules *)

\* Outputs of an install command that fails although the agent was loaded: the
\* attach quirks of some runtime versions.
AttachQuirks ==
    {"Provider sun.tools.attach.LinuxAttachProvider not found",
     "install java.io.IOException: Non-numeric value found",
     "com.sun.tools.attach.AgentLoadException"}

JvmFailPoints ==
    {"none", "decode", "daemon", "home", "copy", "tool", "helper", "rules", "response"}
        \cup AttachQuirks

\* Variant that does not know the attach result code quirk (errMsg4).
BenignInstallErrors_NoAgentLoadException ==
    {"Agent JAR loaded but agent failed to initialize",
     "Provider sun.tools.attach.LinuxAttachProvider not found",
     "install java.io.IOException: Non-numeric value found"}

\* errMsg1 .. errMsg4: install errors that are ignored
BenignInstallErrors ==
    {"Agent JAR loaded but agent failed to initialize",
     "Provider sun.tools.attach.LinuxAttachProvider not found",
     "install java.io.IOException: Non-numeric value found",
     "com.sun.tools.attach.AgentLoadException"}

\* Combined output of the install command when it fails ("" when it succeeds): an
\* agent installed before, an attach quirk of the runtime version, or anything else.
BmInstallOutput(t, fail) ==
    IF t.proc # "java" THEN "attach failed"
    ELSE IF t.agent # "none" THEN "Agent JAR loaded but agent failed to initialize"
    ELSE IF fail \in AttachQuirks THEN fail
    ELSE IF fail = "tool" THEN "attach failed"
    ELSE ""

\* Combined output of a submit command when it cannot talk to the agent ("" when it can).
BmSubmitOutput(t, req, fail) ==
    IF t.agent = "none" \/ ~ReachesControlPort(t, req) THEN "Connection refused"
    ELSE IF fail = "tool" THEN "submit failed"
    ELSE ""

\* Combined output of the rule removal command when it fails ("" when it succeeds).
BmUninstallOutput(t, req, fail) ==
    IF BmSubmitOutput(t, req, fail) # "" THEN BmSubmitOutput(t, req, fail)
    ELSE IF ~t.rule THEN "No rule scripts to remove"
    ELSE ""

\* Variant that goes on to the rule submit when the helper submit failed.
InstallJVMRules_SubmitsAfterHelperFailure(t, req, fail) ==
    LET pidErr   == GetPidFromContainerID(t, fail)
        output   == BmInstallOutput(t, fail)
        attached == IF output = "" \/ (t.agent = "none" /\ output \in AttachQuirks)
                    THEN [t EXCEPT !.agent = "attached"] ELSE t
        helper   == IF fail = "helper" THEN "submit failed"
                    ELSE BmSubmitOutput(attached, req, "none")
        copied   == IF req.EnterNS THEN <<"copy">> ELSE <<>>
    IN  IF pidErr # Nil
        THEN [err |-> pidErr, target |-> t, daemon |-> Handled(pidErr, "", "", <<>>)]
        ELSE IF fail = "home"
        THEN [err |-> "NoBytemanHome", target |-> t,
              daemon |-> Handled("NoBytemanHome", "", "", <<>>)]
        ELSE IF req.EnterNS /\ fail = "copy"
        THEN [err |-> "Tool", target |-> t,
              daemon |-> Handled("Tool", "", "copy failed", copied)]
        ELSE IF output # "" /\ output \notin BenignInstallErrors
        THEN [err |-> "Tool", target |-> t,
              daemon |-> Handled("Tool", output, "", copied \o <<"install">>)]
        ELSE IF fail = "rules"
        THEN [err |-> "Tool", target |-> [attached EXCEPT !.helper = (@ \/ helper = "")],
              daemon |-> Handled("Tool", output, "submit failed",
                                 copied \o <<"install", "helper", "rules">>)]
        ELSE [err |-> Nil, target |-> [attached EXCEPT !.helper = (@ \/ helper = ""), !.rule = TRUE],
              daemon |-> Handled(Nil, output, "",
                                 copied \o <<"install", "helper", "rules">>)]

InstallJVMRules(t, req, fail) ==
    LET pidErr   == GetPidFromContainerID(t, fail)
        output   == BmInstallOutput(t, fail)
        attached == IF output = "" \/ (t.agent = "none" /\ output \in AttachQuirks)
                    THEN [t EXCEPT !.agent = "attached"] ELSE t
        helper   == IF fail = "helper" THEN "submit failed"
                    ELSE BmSubmitOutput(attached, req, "none")
        copied   == IF req.EnterNS THEN <<"copy">> ELSE <<>>
    IN  IF pidErr # Nil
        THEN [err |-> pidErr, target |-> t, daemon |-> Handled(pidErr, "", "", <<>>)]
        ELSE IF fail = "home"
        THEN [err |-> "NoBytemanHome", target |-> t,
              daemon |-> Handled("NoBytemanHome", "", "", <<>>)]
        ELSE IF req.EnterNS /\ fail = "copy"
        THEN [err |-> "Tool", target |-> t,
              daemon |-> Handled("Tool", "", "copy failed", copied)]
        ELSE IF output # "" /\ output \notin BenignInstallErrors
        THEN [err |-> "Tool", target |-> t,
              daemon |-> Handled("Tool", output, "", copied \o <<"install">>)]
        ELSE IF helper # ""
        THEN [err |-> "Tool", target |-> attached,
              daemon |-> Handled("Tool", output, helper, copied \o <<"install", "helper">>)]
        ELSE IF fail = "rules"
        THEN [err |-> "Tool", target |-> [attached EXCEPT !.helper = TRUE],
              daemon |-> Handled("Tool", output, "submit failed",
                                 copied \o <<"install", "helper", "rules">>)]
        ELSE [err |-> Nil, target |-> [attached EXCEPT !.helper = TRUE, !.rule = TRUE],
              daemon |-> Handled(Nil, output, "",
                                 copied \o <<"install", "helper", "rules">>)]

\* Variant for which every failure of the removal command is an error.
UninstallJVMRules_EveryFailureIsError(t, req, fail) ==
    LET pidErr == GetPidFromContainerID(t, fail)
        output == BmUninstallOutput(t, req, fail)
    IN  IF pidErr # Nil
        THEN [err |-> pidErr, target |-> t, daemon |-> Handled(pidErr, "", "", <<>>)]
        ELSE IF output # ""
        THEN [err |-> "Tool", target |-> t,
              daemon |-> Handled("Tool", "", output, <<"remove">>)]
        ELSE [err |-> Nil, target |-> [t EXCEPT !.rule = FALSE],
              daemon |-> Handled(Nil, "", "", <<"remove">>)]

UninstallJVMRules(t, req, fail) ==
    LET pidErr == GetPidFromContainerID(t, fail)
        output == BmUninstallOutput(t, req, fail)
    IN  IF pidErr # Nil
        THEN [err |-> pidErr, target |-> t, daemon |-> Handled(pidErr, "", "", <<>>)]
        ELSE IF output = "No rule scripts to remove"
        THEN [err |-> Nil, target |-> t, daemon |-> Handled(Nil, "", output, <<"remove">>)]
        ELSE IF output # ""
        THEN [err |-> "Tool", target |-> t,
              daemon |-> Handled("Tool", "", output, <<"remove">>)]
        ELSE [err |-> Nil, target |-> [t EXCEPT !.rule = FALSE],
              daemon |-> Handled(Nil, "", "", <<"remove">>)]

----------------------------------------------------------------------------
(* RuntimeMutatorChaos: Impl *)

\* impl.decoder.DecodeContainerRecord: resolves the Record and opens the connection.
DecodeContainerRecord(t, fail) ==
    IF t.proc = "gone" THEN [err |-> "NotFound", client |-> FALSE]
    ELSE IF fail = "decode" THEN [err |-> "Transient", client |-> FALSE]
    ELSE [err |-> Nil, client |-> TRUE]

\* Variant that also refuses a constant action that carries a strategy.
CheckActionParameters_NoStrategy(spec) ==
    IF spec.Action = RuntimeMutatorConstantAction
    THEN IF spec.From = None \/ spec.To = None \/ spec.Strategy # None
         THEN "Validation" ELSE Nil
    ELSE IF spec.Action \in {RuntimeMutatorOperatorAction, RuntimeMutatorStringAction}
    THEN IF spec.Strategy = None THEN "Validation" ELSE Nil
    ELSE Nil

\* Variant that checks the parameters of the constant action only.
CheckActionParameters_ConstantOnly(spec) ==
    IF spec.Action = RuntimeMutatorConstantAction
    THEN IF spec.From = None \/ spec.To = None THEN "Validation" ELSE Nil
    ELSE Nil

\* the switch on Spec.Action before the install request
CheckActionParameters(spec) ==
    IF spec.Action = RuntimeMutatorConstantAction
    THEN IF spec.From = None \/ spec.To = None THEN "Validation" ELSE Nil
    ELSE IF spec.Action \in {RuntimeMutatorOperatorAction, RuntimeMutatorStringAction}
    THEN IF spec.Strategy = None THEN "Validation" ELSE Nil
    ELSE Nil

RuntimeMutatorRequest(spec) ==
    [Action   |-> spec.Action,
     From     |-> IF spec.From # None THEN Val(spec.From) ELSE "",
     To       |-> IF spec.To # None THEN Val(spec.To) ELSE "",
     Strategy |-> IF spec.Strategy # None THEN Val(spec.Strategy) ELSE "",
     EnterNS  |-> FALSE]

\* decodedContainer.PbClient.X(ctx, req): the handler runs; with fail = "response" the
\* reply does not reach the caller, which sees an error.
Rpc(reply, fail) ==
    IF fail = "response" /\ reply.err = Nil THEN [reply EXCEPT !.err = "Transient"]
    ELSE reply

\* The connection of a call when the call returns: "none" when none was opened,
\* "closed" when it was opened and closed, "open" when it was opened and left open.
Connection(opened, closed) ==
    IF ~opened THEN "none" ELSE IF closed THEN "closed" ELSE "open"

\* Variant that closes the connection at the end of the successful path only.
MutatorApply_ClosesOnSuccess(t, c, fail) ==
    LET d      == DecodeContainerRecord(t, fail)
        check  == CheckActionParameters(c.Spec)
        resp   == Rpc(InstallRuntimeMutator(t, RuntimeMutatorRequest(c.Spec), fail), fail)
    IN  IF d.err # Nil
        THEN [phase |-> NotInjected, err |-> d.err, seen |-> d.err, target |-> t,
              daemon |-> NoDaemon, conn |-> Connection(d.client, FALSE)]
        ELSE IF check # Nil
        THEN [phase |-> NotInjected, err |-> check, seen |-> Nil, target |-> t,
              daemon |-> NoDaemon, conn |-> Connection(d.client, FALSE)]
        ELSE IF resp.err # Nil
        THEN [phase |-> NotInjected, err |-> resp.err, seen |-> resp.err,
              target |-> resp.target, daemon |-> resp.daemon,
              conn |-> Connection(d.client, FALSE)]
        ELSE IF ~resp.success
        THEN [phase |-> NotInjected, err |-> "Unsuccessful", seen |-> Nil,
              target |-> resp.target, daemon |-> resp.daemon,
              conn |-> Connection(d.client, FALSE)]
        ELSE [phase |-> Injected, err |-> Nil, seen |-> Nil,
              target |-> resp.target, daemon |-> resp.daemon,
              conn |-> Connection(d.client, TRUE)]

\* Every result carries what the daemon handler did (NoDaemon when it was not
\* called) and the connection of the call as it is on return. closes is the
\* deferred PbClient.Close(), registered when PbClient != nil.
MutatorApply(t, c, fail) ==
    LET d      == DecodeContainerRecord(t, fail)
        closes == d.client
        conn   == Connection(d.client, closes)
        check  == CheckActionParameters(c.Spec)
        resp   == Rpc(InstallRuntimeMutator(t, RuntimeMutatorRequest(c.Spec), fail), fail)
    IN  IF d.err # Nil
        THEN [phase |-> NotInjected, err |-> d.err, seen |-> d.err, target |-> t,
              daemon |-> NoDaemon, conn |-> conn]
        ELSE IF check # Nil
        THEN [phase |-> NotInjected, err |-> check, seen |-> Nil, target |-> t,
              daemon |-> NoDaemon, conn |-> conn]
        ELSE IF resp.err # Nil
        THEN [phase |-> NotInjected, err |-> resp.err, seen |-> resp.err,
              target |-> resp.target, daemon |-> resp.daemon, conn |-> conn]
        ELSE IF ~resp.success
        THEN [phase |-> NotInjected, err |-> "Unsuccessful", seen |-> Nil,
              target |-> resp.target, daemon |-> resp.daemon, conn |-> conn]
        ELSE [phase |-> Injected, err |-> Nil, seen |-> Nil,
              target |-> resp.target, daemon |-> resp.daemon, conn |-> conn]

\* Variant whose failing Recover returns NotInjected.
MutatorRecover_DropsRecord(t, c, fail) ==
    LET d      == DecodeContainerRecord(t, fail)
        closes == d.client
        conn   == Connection(d.client, closes)
        resp   == Rpc(UninstallRuntimeMutator(t, RuntimeMutatorRequest(c.Spec), fail), fail)
    IN  IF d.err # Nil
        THEN [phase |-> NotInjected, err |-> d.err, seen |-> d.err, target |-> t,
              daemon |-> NoDaemon, conn |-> conn]
        ELSE IF resp.err # Nil
        THEN [phase |-> NotInjected, err |-> resp.err, seen |-> resp.err,
              target |-> resp.target, daemon |-> resp.daemon, conn |-> conn]
        ELSE [phase |-> NotInjected, err |-> Nil, seen |-> Nil,
              target |-> resp.target, daemon |-> resp.daemon, conn |-> conn]

MutatorRecover(t, c, fail) ==
    LET d      == DecodeContainerRecord(t, fail)
        closes == d.client
        conn   == Connection(d.client, closes)
        resp   == Rpc(UninstallRuntimeMutator(t, RuntimeMutatorRequest(c.Spec), fail), fail)
    IN  IF d.err # Nil
        THEN [phase |-> Injected, err |-> d.err, seen |-> d.err, target |-> t,
              daemon |-> NoDaemon, conn |-> conn]
        ELSE IF resp.err # Nil
        THEN [phase |-> Injected, err |-> resp.err, seen |-> resp.err,
              target |-> resp.target, daemon |-> resp.daemon, conn |-> conn]
        ELSE [phase |-> NotInjected, err |-> Nil, seen |-> Nil,
              target |-> resp.target, daemon |-> resp.daemon, conn |-> conn]

----------------------------------------------------------------------------
(* JVMChaos: Impl, the caller of InstallJVMRules / UninstallJVMRules *)

JVMRulesRequest(spec) == [Rule |-> spec.Rule, EnterNS |-> spec.EnterNS]

JvmApply(t, c, fail) ==
    LET d    == DecodeContainerRecord(t, fail)
        resp == Rpc(InstallJVMRules(t, JVMRulesRequest(c.Spec), fail), fail)
    IN  IF d.err # Nil
        THEN [phase |-> NotInjected, err |-> d.err, seen |-> d.err, target |-> t,
              daemon |-> NoDaemon, conn |-> Connection(d.client, TRUE)]
        ELSE IF resp.err # Nil
        THEN [phase |-> NotInjected, err |-> resp.err, seen |-> resp.err,
              target |-> resp.target, daemon |-> resp.daemon,
              conn |-> Connection(d.client, TRUE)]
        ELSE [phase |-> Injected, err |-> Nil, seen |-> Nil,
              target |-> resp.target, daemon |-> resp.daemon,
              conn |-> Connection(d.client, TRUE)]

\* A target that no longer exists counts as recovered; any other error is retried.
JvmRecover(t, c, fail) ==
    LET d    == DecodeContainerRecord(t, fail)
        resp == Rpc(UninstallJVMRules(t, JVMRulesRequest(c.Spec), fail), fail)
    IN  IF d.err = "NotFound"
        THEN [phase |-> NotInjected, err |-> Nil, seen |-> d.err, target |-> t,
              daemon |-> NoDaemon, conn |-> Connection(d.client, TRUE)]
        ELSE IF d.err # Nil
        THEN [phase |-> Injected, err |-> d.err, seen |-> d.err, target |-> t,
              daemon |-> NoDaemon, conn |-> Connection(d.client, TRUE)]
        ELSE IF resp.err # Nil
        THEN [phase |-> Injected, err |-> resp.err, seen |-> resp.err,
              target |-> resp.target, daemon |-> resp.daemon,
              conn |-> Connection(d.client, TRUE)]
        ELSE [phase |-> NotInjected, err |-> Nil, seen |-> Nil,
              target |-> resp.target, daemon |-> resp.daemon,
              conn |-> Connection(d.client, TRUE)]

----------------------------------------------------------------------------
(* Impl dispatch: the Implementation bound to the resource's kind *)

FailPoints(c) ==
    IF c.kind = "envoy" THEN EnvoyFailPoints
    ELSE IF c.kind = "mutator" THEN MutatorFailPoints
    ELSE JvmFailPoints

\* The fault a Record stands for is in place: the proxy-config object written for
\* the resource exists, the mutation agent of the container has its mutations
\* enabled, or the rule script is loaded in the container's rule agent.
FaultInPlace(cfgs, tgt, id, c) ==
    IF c.kind = "envoy" THEN \E o \in cfgs : o.owner = id
    ELSE IF c.kind = "mutator" THEN tgt.agent = "active"
    ELSE tgt.rule

ImplApply(cfgs, tgt, id, c, index, fail) ==
    IF c.kind = "envoy"
    THEN LET r == EnvoyApply(cfgs, id, c, index, fail)
         IN  [phase |-> r.phase, err |-> r.err, seen |-> r.seen,
              configs |-> r.configs, target |-> tgt, daemon |-> NoDaemon, conn |-> "none"]
    ELSE LET r == IF c.kind = "mutator" THEN MutatorApply(tgt, c, fail)
                  ELSE JvmApply(tgt, c, fail)
         IN  [phase |-> r.phase, err |-> r.err, seen |-> r.seen,
              configs |-> cfgs, target |-> r.target, daemon |-> r.daemon, conn |-> r.conn]

ImplRecover(cfgs, tgt, id, c, index, fail) ==
    IF c.kind = "envoy"
    THEN LET r == EnvoyRecover(cfgs, id, c, index, fail)
         IN  [phase |-> r.phase, err |-> r.err, seen |-> r.seen,
              configs |-> r.configs, target |-> tgt, daemon |-> NoDaemon, conn |-> "none"]
    ELSE LET r == IF c.kind = "mutator" THEN MutatorRecover(tgt, c, fail)
                  ELSE JvmRecover(tgt, c, fail)
         IN  [phase |-> r.phase, err |-> r.err, seen |-> r.seen,
              configs |-> cfgs, target |-> r.target, daemon |-> r.daemon, conn |-> r.conn]

----------------------------------------------------------------------------
(* Record/Phase engine *)

Ids == DOMAIN chaos

Stopped(id) == stopping[id] \/ deleted[id]

NoCall ==
    [op |-> "None", id |-> "", index |-> 0, before |-> NotInjected, phase |-> NotInjected,
     err |-> Nil, seen |-> Nil, faultBefore |-> FALSE, fault |-> FALSE, changed |-> FALSE,
     daemon |-> NoDaemon, conn |-> "none"]

\* The record of one Impl call r on Record index of resource id.
CallRecord(op, id, index, r) ==
    [op |-> op, id |-> id, index |-> index,
     before |-> records[id][index], phase |-> r.phase, err |-> r.err, seen |-> r.seen,
     faultBefore |-> FaultInPlace(configs, target[id][index], id, chaos[id]),
     fault |-> FaultInPlace(r.configs, r.target, id, chaos[id]),
     changed |-> (r.configs # configs \/ r.target # target[id][index]),
     daemon |-> r.daemon, conn |-> r.conn]

\* One Impl call of a reconcile and the status write that follows it. With crash
\* the controller stops between the call and the status write, and the next
\* reconcile starts over from the first Record.
CallEffect(op, id, index, r, crash) ==
    /\ configs' = r.configs
    /\ target' = [target EXCEPT ![id][index] = r.target]
    /\ last' = CallRecord(op, id, index, r)
    /\ records' = IF crash THEN records ELSE [records EXCEPT ![id][index] = r.phase]
    /\ idx' = [idx EXCEPT ![id] = IF crash THEN 0 ELSE index + 1]
    /\ pending' = [pending EXCEPT ![id][index] =
                      IF op = "Recover" /\ r.err = Nil THEN FALSE
                      ELSE IF ~crash /\ r.phase = Injected THEN TRUE
                      ELSE @]

Call(op, id, r, crash) ==
    /\ CallEffect(op, id, idx[id], r, crash)
    /\ UNCHANGED <<chaos, stopping, deleted, finalizer, aside>>

\* Running resource: a Record that is not Injected is applied.
ReconcileApply(id, fail, crash) ==
    /\ finalizer[id] /\ ~Stopped(id)
    /\ idx[id] < NumRecords
    /\ records[id][idx[id]] # Injected
    /\ Call("Apply", id,
            ImplApply(configs, target[id][idx[id]], id, chaos[id], idx[id], fail), crash)

\* Running resource: an Injected Record needs nothing.
ReconcileSkip(id) ==
    /\ finalizer[id] /\ ~Stopped(id)
    /\ idx[id] < NumRecords
    /\ records[id][idx[id]] = Injected
    /\ idx' = [idx EXCEPT ![id] = @ + 1]
    /\ last' = NoCall
    /\ UNCHANGED <<chaos, records, stopping, deleted, finalizer, configs, target, pending, aside>>

\* Duration elapsed or resource deleted: every Record is recovered.
ReconcileRecover(id, fail, crash) ==
    /\ finalizer[id] /\ Stopped(id)
    /\ idx[id] < NumRecords
    /\ Call("Recover", id,
            ImplRecover(configs, target[id][idx[id]], id, chaos[id], idx[id], fail), crash)

AllRecovered(id) == \A i \in Index : records[id][i] = NotInjected

\* End of a reconcile; a deleted resource whose Records are all recovered is released.
EndReconcile(id) ==
    /\ finalizer[id]
    /\ idx[id] = NumRecords
    /\ idx' = [idx EXCEPT ![id] = 0]
    /\ finalizer' = [finalizer EXCEPT ![id] = ~(deleted[id] /\ AllRecovered(id))]
    /\ last' = NoCall
    /\ UNCHANGED <<chaos, records, stopping, deleted, configs, target, pending, aside>>

DurationElapsed(id) ==
    /\ finalizer[id] /\ ~stopping[id] /\ idx[id] = 0
    /\ stopping' = [stopping EXCEPT ![id] = TRUE]
    /\ last' = NoCall
    /\ UNCHANGED <<chaos, records, idx, deleted, finalizer, configs, target, pending, aside>>

DeleteResource(id) ==
    /\ finalizer[id] /\ ~deleted[id] /\ idx[id] = 0
    /\ deleted' = [deleted EXCEPT ![id] = TRUE]
    /\ last' = NoCall
    /\ UNCHANGED <<chaos, records, idx, stopping, finalizer, configs, target, pending, aside>>

----------------------------------------------------------------------------
(* Environment: the containers behind the Records of a daemon-backed resource *)

\* Within a reconcile only the call on a Record reads its container, once, so an
\* event during a reconcile shows the same way as the event just before it (Record
\* not yet processed) or just after it (Record already processed): events are
\* taken between reconciles.

\* A container in which no agent has been loaded.
Container(proc, net) ==
    [proc |-> proc, net |-> net, agent |-> "none", helper |-> FALSE, rule |-> FALSE]

\* The pod of a Record is deleted.
TargetGone(id, i) ==
    /\ chaos[id].kind # "envoy" /\ idx[id] = 0
    /\ target[id][i].proc # "gone"
    /\ target' = [target EXCEPT ![id][i] = Container("gone", target[id][i].net)]
    /\ last' = NoCall
    /\ UNCHANGED <<chaos, records, idx, stopping, deleted, finalizer, configs, pending, aside>>

\* The runtime process of a container exits; the container keeps running.
JavaExit(id, i) ==
    /\ chaos[id].kind # "envoy" /\ idx[id] = 0
    /\ target[id][i].proc = "java"
    /\ target' = [target EXCEPT ![id][i] = Container("nojava", target[id][i].net)]
    /\ last' = NoCall
    /\ UNCHANGED <<chaos, records, idx, stopping, deleted, finalizer, configs, pending, aside>>

----------------------------------------------------------------------------
(* Resources *)

FaultSpec ==
    [Action |-> EnvoyFaultAction, Protocol |-> "grpc", Percentage |-> Some(100),
     Delay |-> None,
     Abort |-> Some([HTTPStatus |-> None, GrpcStatus |-> Some(14), Percentage |-> Some(30)])]

EnvoyChaos(name, namespace, svc, tns, cns, f) ==
    [kind |-> "envoy", Name |-> name, Namespace |-> namespace,
     Spec |-> [TargetService |-> svc, TargetNamespace |-> tns, EnvoyConfigNamespace |-> cns,
               Action |-> f.Action, Protocol |-> f.Protocol, Percentage |-> f.Percentage,
               Delay |-> f.Delay, Abort |-> f.Abort]]

\* The last one carries an action that is none of EnvoyActions.
EnvoyResources ==
    {EnvoyChaos("a", "ns", svc, tns, cns, FaultSpec) :
        svc \in {"", "svc"}, tns \in {"", "tns"}, cns \in {"", "cns"}}
    \cup {EnvoyChaos("a", "ns", "svc", "", "", [FaultSpec EXCEPT !.Action = "unknown"])}

RuntimeMutatorChaos(name, namespace, action, from, to, strategy) ==
    [kind |-> "mutator", Name |-> name, Namespace |-> namespace,
     Spec |-> [Action |-> action, From |-> from, To |-> to, Strategy |-> strategy]]

MutatorResources ==
    {RuntimeMutatorChaos("m", "ns", RuntimeMutatorConstantAction, Some("100"), Some("0"), None),
     RuntimeMutatorChaos("m", "ns", RuntimeMutatorConstantAction, None, Some("0"), None),
     RuntimeMutatorChaos("m", "ns", RuntimeMutatorOperatorAction, None, None, Some("add-to-subtract")),
     RuntimeMutatorChaos("m", "ns", RuntimeMutatorConstantAction, Some("100"), None, None),
     RuntimeMutatorChaos("m", "ns", RuntimeMutatorOperatorAction, None, None, None),
     RuntimeMutatorChaos("m", "ns", RuntimeMutatorStringAction, None, None, None),
     RuntimeMutatorChaos("m", "ns", "unknown", None, None, None)}

JVMChaos(name, namespace, enterNS) ==
    [kind |-> "jvm", Name |-> name, Namespace |-> namespace,
     Spec |-> [Rule |-> "RULE r", EnterNS |-> enterNS]]

JvmResources == {JVMChaos("j", "ns", e) : e \in BOOLEAN}

NoTarget == Container("none", "own")

Targets(c) ==
    IF c.kind = "envoy" THEN [Index -> {NoTarget}]
    ELSE UNION {[Index -> {Container(p, n) : p \in {"java", "nojava"}}] :
                   n \in {"own", "shared"}}

TypeOK ==
    /\ \A id \in Ids : records[id] \in [Index -> {NotInjected, Injected}]
    /\ \A id \in Ids : idx[id] \in 0 .. NumRecords
    /\ \A o \in configs : \A q \in configs : Key(o) = Key(q) => o = q

----------------------------------------------------------------------------
(* One resource, its Records driven by the engine *)

ResourceIds == {"c1"}

Init ==
    /\ \E c \in EnvoyResources \cup MutatorResources \cup JvmResources :
          /\ chaos = [id \in ResourceIds |-> c]
          /\ target \in [ResourceIds -> Targets(c)]
    /\ records = [id \in ResourceIds |-> [i \in Index |-> NotInjected]]
    /\ pending = [id \in ResourceIds |-> [i \in Index |-> FALSE]]
    /\ idx = [id \in ResourceIds |-> 0]
    /\ stopping = [id \in ResourceIds |-> FALSE]
    /\ deleted = [id \in ResourceIds |-> FALSE]
    /\ finalizer = [id \in ResourceIds |-> TRUE]
    /\ configs = {}
    /\ last = NoCall
    /\ gen = None
    /\ host = None
    /\ sel = None
    /\ adm = None
    /\ probe = None
    /\ worker = [w \in Workers |-> ""]
    /\ inflight = {}

Next ==
    \/ \E id \in Ids : \E fail \in FailPoints(chaos[id]) : \E crash \in BOOLEAN :
          ReconcileApply(id, fail, crash)
    \/ \E id \in Ids : ReconcileSkip(id)
    \/ \E id \in Ids : \E fail \in FailPoints(chaos[id]) : \E crash \in BOOLEAN :
          ReconcileRecover(id, fail, crash)
    \/ \E id \in Ids : EndReconcile(id)
    \/ \E id \in Ids : DurationElapsed(id)
    \/ \E id \in Ids : DeleteResource(id)
    \/ \E id \in Ids : \E i \in Index : TargetGone(id, i)
    \/ \E id \in Ids : \E i \in Index : JavaExit(id, i)

Spec == Init /\ [][Next]_vars

\* Reconciles keep being scheduled, and a call that keeps being retried is not
\* struck by a transient failure or a controller stop every time.
RecoverUndisturbed(id, i) == idx[id] = i /\ ReconcileRecover(id, "none", FALSE)

Fairness ==
    \A id \in ResourceIds :
        /\ WF_vars(EndReconcile(id))
        /\ \A i \in Index : SF_vars(RecoverUndisturbed(id, i))

FairSpec == Spec /\ Fairness

----------------------------------------------------------------------------
(* generateFaultConfig on its own, over the fault settings a resource can carry *)

Percentages == {None, Some(0), Some(30), Some(100)}

DelayConfigs ==
    {None} \cup {Some([FixedDelay |-> d, Percentage |-> p]) :
                    d \in {None, Some("1s")}, p \in Percentages}

AbortConfigs ==
    {None} \cup {Some([HTTPStatus |-> h, GrpcStatus |-> g, Percentage |-> p]) :
                    h \in {None, Some(503)}, g \in {None, Some(14)}, p \in Percentages}

FaultSpecs ==
    [Action : {EnvoyFaultAction, EnvoyDelayAction, EnvoyAbortAction},
     Protocol : {"http", "grpc"}, Percentage : Percentages,
     Delay : DelayConfigs, Abort : AbortConfigs]

GenInit ==
    /\ \E f \in FaultSpecs :
          chaos = [id \in ResourceIds |-> EnvoyChaos("a", "ns", "svc", "", "", f)]
    /\ target = [id \in ResourceIds |-> [i \in Index |-> NoTarget]]
    /\ records = [id \in ResourceIds |-> [i \in Index |-> NotInjected]]
    /\ pending = [id \in ResourceIds |-> [i \in Index |-> FALSE]]
    /\ idx = [id \in ResourceIds |-> 0]
    /\ stopping = [id \in ResourceIds |-> FALSE]
    /\ deleted = [id \in ResourceIds |-> FALSE]
    /\ finalizer = [id \in ResourceIds |-> TRUE]
    /\ configs = {}
    /\ last = NoCall
    /\ gen = None
    /\ host = None
    /\ sel = None
    /\ adm = None
    /\ probe = None
    /\ worker = [w \in Workers |-> ""]
    /\ inflight = {}

\* faultConfig := impl.generateFaultConfig(envoychaos)
Generate(id) ==
    /\ gen = None
    /\ gen' = Some([id |-> id, fault |-> generateFaultConfig(chaos[id].Spec)])
    /\ UNCHANGED <<engineVars, host, sel, adm, probe, worker, inflight>>

GenNext == \E id \in ResourceIds : Generate(id)

GenSpec == GenInit /\ [][GenNext]_vars

----------------------------------------------------------------------------
(* Reconcile workers: several resources, each call with a start and an end *)

ConcIds == {"c1", "c2"}

\* Some worker is reconciling the resource.
Held_Never(id) == FALSE

Held(id) == \E w \in Workers : worker[w] = id

\* The worker has started a call that has not returned.
Busy(w) == \E c \in inflight : c.worker = w

\* What the reconcile does with the Record it has reached.
NextOp(id) ==
    IF Stopped(id) THEN "Recover"
    ELSE IF records[id][idx[id]] # Injected THEN "Apply"
    ELSE "Skip"

\* An idle worker takes a resource no worker is reconciling.
TakeResource(w, id) ==
    /\ worker[w] = "" /\ ~Held(id)
    /\ finalizer[id] /\ idx[id] = 0
    /\ worker' = [worker EXCEPT ![w] = id]
    /\ last' = NoCall
    /\ UNCHANGED <<chaos, records, idx, stopping, deleted, finalizer, configs, target,
                   pending, gen, host, sel, adm, probe, inflight>>

\* The worker starts the call on the Record its reconcile has reached.
BeginCall(w) ==
    /\ worker[w] # "" /\ ~Busy(w)
    /\ idx[worker[w]] < NumRecords
    /\ NextOp(worker[w]) # "Skip"
    /\ inflight' = inflight \cup {[worker |-> w, id |-> worker[w],
                                   index |-> idx[worker[w]], op |-> NextOp(worker[w])]}
    /\ last' = NoCall
    /\ UNCHANGED <<chaos, records, idx, stopping, deleted, finalizer, configs, target,
                   pending, gen, host, sel, adm, probe, worker>>

\* The call returns and its Phase is written; with crash the controller stops before
\* the write and the resource goes back to the queue.
EndCall(w, fail, crash) ==
    \E c \in inflight :
        /\ c.worker = w
        /\ fail \in FailPoints(chaos[c.id])
        /\ LET tgt == target[c.id][c.index]
               r == IF c.op = "Apply"
                    THEN ImplApply(configs, tgt, c.id, chaos[c.id], c.index, fail)
                    ELSE ImplRecover(configs, tgt, c.id, chaos[c.id], c.index, fail)
           IN  CallEffect(c.op, c.id, c.index, r, crash)
        /\ inflight' = inflight \ {c}
        /\ worker' = IF crash THEN [worker EXCEPT ![w] = ""] ELSE worker
        /\ UNCHANGED <<chaos, stopping, deleted, finalizer, gen, host, sel, adm, probe>>

\* An Injected Record of a running resource needs no call.
SkipRecord(w) ==
    /\ worker[w] # "" /\ ~Busy(w)
    /\ idx[worker[w]] < NumRecords
    /\ NextOp(worker[w]) = "Skip"
    /\ idx' = [idx EXCEPT ![worker[w]] = @ + 1]
    /\ last' = NoCall
    /\ UNCHANGED <<chaos, records, stopping, deleted, finalizer, configs, target, pending,
                   aside>>

\* The reconcile ends and the worker is idle again; a deleted resource whose Records
\* are all recovered is released.
FinishReconcile(w) ==
    /\ worker[w] # "" /\ ~Busy(w)
    /\ idx[worker[w]] = NumRecords
    /\ idx' = [idx EXCEPT ![worker[w]] = 0]
    /\ finalizer' = [finalizer EXCEPT
                        ![worker[w]] = ~(deleted[worker[w]] /\ AllRecovered(worker[w]))]
    /\ worker' = [worker EXCEPT ![w] = ""]
    /\ last' = NoCall
    /\ UNCHANGED <<chaos, records, stopping, deleted, configs, target, pending,
                   gen, host, sel, adm, probe, inflight>>

\* The calls succeed or are struck where they reach the API server or the daemon.
ConcFailPoints == {"none", "create", "daemon"}

ConcInit ==
    /\ chaos = [id \in ConcIds |->
                   IF id = "c1" THEN EnvoyChaos("a", "ns", "svc", "", "", FaultSpec)
                   ELSE RuntimeMutatorChaos("m", "ns", RuntimeMutatorConstantAction,
                                            Some("100"), Some("0"), None)]
    /\ target = [id \in ConcIds |->
                    [i \in Index |-> IF id = "c1" THEN NoTarget ELSE Container("java", "own")]]
    /\ records = [id \in ConcIds |-> [i \in Index |-> NotInjected]]
    /\ pending = [id \in ConcIds |-> [i \in Index |-> FALSE]]
    /\ idx = [id \in ConcIds |-> 0]
    /\ stopping = [id \in ConcIds |-> FALSE]
    /\ deleted = [id \in ConcIds |-> FALSE]
    /\ finalizer = [id \in ConcIds |-> TRUE]
    /\ configs = {}
    /\ last = NoCall
    /\ gen = None
    /\ host = None
    /\ sel = None
    /\ adm = None
    /\ probe = None
    /\ worker = [w \in Workers |-> ""]
    /\ inflight = {}

\* The resources run until they are deleted.
ConcNext ==
    \/ \E w \in Workers : \E id \in Ids : TakeResource(w, id)
    \/ \E w \in Workers : BeginCall(w)
    \/ \E w \in Workers : \E fail \in ConcFailPoints : \E crash \in BOOLEAN :
          EndCall(w, fail, crash)
    \/ \E w \in Workers : SkipRecord(w)
    \/ \E w \in Workers : FinishReconcile(w)
    \/ \E id \in Ids : DeleteResource(id)

ConcSpec == ConcInit /\ [][ConcNext]_vars

----------------------------------------------------------------------------
(* Two EnvoyChaos resources, their Apply and Recover calls interleaved *)

\* Two resources of different namespaces, of the same name or not, each with or
\* without a target namespace, which the other may name as well.
EnvoyPairs ==
    {[id \in ConcIds |-> IF id = "c1" THEN EnvoyChaos("a", "ns1", "svc", tns1, "", FaultSpec)
                         ELSE EnvoyChaos(name2, "ns2", "svc", tns2, "", FaultSpec)] :
        name2 \in {"a", "b"}, tns1 \in {"", "shared"}, tns2 \in {"", "shared"}}

PairInit ==
    /\ chaos \in EnvoyPairs
    /\ target = [id \in ConcIds |-> [i \in Index |-> NoTarget]]
    /\ records = [id \in ConcIds |-> [i \in Index |-> NotInjected]]
    /\ pending = [id \in ConcIds |-> [i \in Index |-> FALSE]]
    /\ idx = [id \in ConcIds |-> 0]
    /\ stopping = [id \in ConcIds |-> FALSE]
    /\ deleted = [id \in ConcIds |-> FALSE]
    /\ finalizer = [id \in ConcIds |-> TRUE]
    /\ configs = {}
    /\ last = NoCall
    /\ gen = None
    /\ host = None
    /\ sel = None
    /\ adm = None
    /\ probe = None
    /\ worker = [w \in Workers |-> ""]
    /\ inflight = {}

\* The calls of the two resources in any order, each resource running until it is
\* deleted.
PairNext ==
    \/ \E id \in Ids : \E fail \in ConcFailPoints : ReconcileApply(id, fail, FALSE)
    \/ \E id \in Ids : ReconcileSkip(id)
    \/ \E id \in Ids : \E fail \in ConcFailPoints : ReconcileRecover(id, fail, FALSE)
    \/ \E id \in Ids : EndReconcile(id)
    \/ \E id \in Ids : DeleteResource(id)

PairSpec == PairInit /\ [][PairNext]_vars

----------------------------------------------------------------------------
(* fusedev: GrantAccess on its own, over the hosts the daemon can run on *)

\* A file path is the sequence of its separators "/" and its names, so that
\* concatenating paths is concatenating sequences, as "+" does on the strings.
RECURSIVE Join(_)
Join(names) ==
    IF names = <<>> THEN <<>> ELSE <<"/", Head(names)>> \o Join(Tail(names))

\* "/"
RootPath == <<"/">>

\* An engine at rest around the evaluation of one function.
EngineAtRest ==
    /\ chaos = [id \in ResourceIds |-> EnvoyChaos("a", "ns", "svc", "", "", FaultSpec)]
    /\ target = [id \in ResourceIds |-> [i \in Index |-> NoTarget]]
    /\ records = [id \in ResourceIds |-> [i \in Index |-> NotInjected]]
    /\ pending = [id \in ResourceIds |-> [i \in Index |-> FALSE]]
    /\ idx = [id \in ResourceIds |-> 0]
    /\ stopping = [id \in ResourceIds |-> FALSE]
    /\ deleted = [id \in ResourceIds |-> FALSE]
    /\ finalizer = [id \in ResourceIds |-> TRUE]
    /\ configs = {}
    /\ last = NoCall

\* One line of /proc/<pid>/cgroup after strings.SplitN(text, ":", 3): the number of
\* parts, the controllers named in parts[1] (none for the unified hierarchy) and the
\* path parts[2].
CgroupEntry(controllers, path) == [parts |-> 3, controllers |-> controllers, path |-> path]

\* A line with no second colon.
InvalidEntry == [parts |-> 2, controllers |-> {}, path |-> <<>>]

\* Variant that takes every line as an entry.
Invalid_Never(entry) == FALSE

\* len(parts) < 3
Invalid(entry) == entry.parts < 3

\* Variant that takes every unified entry.
TakesUnified_Always(entry, found) == entry.controllers = {}

\* parts[1] == "" && len(deviceCgroupPath) == 0
TakesUnified(entry, found) == entry.controllers = {} /\ found.deviceCgroupPath = <<>>

\* The scan of the lines: a v1 "devices" entry wins, a unified entry is taken only
\* while no path has been found.
RECURSIVE ScanCgroup(_, _)
ScanCgroup(lines, found) ==
    IF lines = <<>> THEN found
    ELSE LET entry == Head(lines)
         IN  IF Invalid(entry) THEN [found EXCEPT !.err = "InvalidEntry"]
             ELSE IF "devices" \in entry.controllers
             THEN ScanCgroup(Tail(lines),
                             [found EXCEPT !.deviceCgroupPath = entry.path,
                                           !.isCgroupV2 = FALSE])
             ELSE IF TakesUnified(entry, found)
             THEN ScanCgroup(Tail(lines),
                             [found EXCEPT !.deviceCgroupPath = entry.path,
                                           !.isCgroupV2 = TRUE])
             ELSE ScanCgroup(Tail(lines), found)

\* cgroup.controllers under /host-sys when that file exists, under /sys otherwise;
\* None when the file chosen cannot be read.
ControllersFile(h) ==
    IF IsSome(h.hostControllers) THEN h.hostControllers ELSE h.sysControllers

\* Variant that never finds the devices controller missing.
DevicesControllerAbsent_Never(h) == FALSE

\* err == nil && !strings.Contains(string(controllers), "devices")
DevicesControllerAbsent(h) ==
    IsSome(ControllersFile(h)) /\ "devices" \notin Val(ControllersFile(h))

\* Variant that always concatenates prefix, cgroup path and file name.
FinalPath_PlainConcat(deviceCgroupPath, isCgroupV2) ==
    IF isCgroupV2
    THEN Join(<<"host-sys", "fs", "cgroup">>) \o deviceCgroupPath \o Join(<<"devices.allow">>)
    ELSE Join(<<"host-sys", "fs", "cgroup", "devices">>) \o deviceCgroupPath
             \o Join(<<"devices.allow">>)

FinalPath(deviceCgroupPath, isCgroupV2) ==
    IF isCgroupV2
    THEN IF deviceCgroupPath = RootPath
         THEN Join(<<"host-sys", "fs", "cgroup", "devices.allow">>)
         ELSE Join(<<"host-sys", "fs", "cgroup">>) \o deviceCgroupPath
                  \o Join(<<"devices.allow">>)
    ELSE IF deviceCgroupPath = RootPath
         THEN Join(<<"host-sys", "fs", "cgroup", "devices", "devices.allow">>)
         ELSE Join(<<"host-sys", "fs", "cgroup", "devices">>) \o deviceCgroupPath
                  \o Join(<<"devices.allow">>)

\* What a GrantAccess call did: its error, the files it tried to open for writing
\* and what it wrote.
Granted(err, opens, written) == [err |-> err, opens |-> opens, written |-> written]

GrantAccess(h) ==
    LET found == ScanCgroup(Val(h.cgroup),
                            [err |-> Nil, deviceCgroupPath |-> <<>>, isCgroupV2 |-> FALSE])
        finalPath == FinalPath(found.deviceCgroupPath, found.isCgroupV2)
    IN  IF ~IsSome(h.cgroup) THEN Granted("Open", <<>>, <<>>)
        ELSE IF found.err # Nil THEN Granted(found.err, <<>>, <<>>)
        ELSE IF found.deviceCgroupPath = <<>> THEN Granted("NoDeviceCgroup", <<>>, <<>>)
        ELSE IF found.isCgroupV2 /\ DevicesControllerAbsent(h) THEN Granted(Nil, <<>>, <<>>)
        ELSE IF h.allow = "missing" THEN Granted("Open", <<finalPath>>, <<>>)
        ELSE IF h.allow = "rejects" THEN Granted("Write", <<finalPath>>, <<>>)
        ELSE Granted(Nil, <<finalPath>>,
                     <<[path |-> finalPath, content |-> "c 10:229 rwm"]>>)

CgroupPaths ==
    {RootPath, Join(<<"user.slice">>), Join(<<"kubepods", "burstable", "pod123">>)}

CgroupEntries ==
    {CgroupEntry({"devices"}, path) : path \in CgroupPaths}
        \cup {CgroupEntry({}, path) : path \in CgroupPaths}
        \cup {CgroupEntry({"cpu", "cpuacct"}, Join(<<"user.slice">>)), InvalidEntry}
        \cup {CgroupEntry({"devices"}, <<>>), CgroupEntry({}, <<>>)}

CgroupFiles == UNION {[1 .. n -> CgroupEntries] : n \in 0 .. MaxLines}

ControllerLists == {None, Some({"cpu", "memory"}), Some({"cpu", "devices", "memory"})}

\* allow: the devices.allow file at the write target is "missing", "writable", or
\* "rejects" the rule.
Hosts ==
    [cgroup : {None} \cup {Some(f) : f \in CgroupFiles},
     hostControllers : ControllerLists, sysControllers : ControllerLists,
     allow : {"missing", "writable", "rejects"}]

FuseInit ==
    /\ EngineAtRest
    /\ gen = None
    /\ host \in {Some([state |-> h, result |-> None]) : h \in Hosts}
    /\ sel = None
    /\ adm = None
    /\ probe = None
    /\ worker = [w \in Workers |-> ""]
    /\ inflight = {}

GrantAccessCall ==
    /\ IsSome(host) /\ Val(host).result = None
    /\ host' = Some([Val(host) EXCEPT !.result = Some(GrantAccess(Val(host).state))])
    /\ UNCHANGED <<engineVars, gen, sel, adm, probe, worker, inflight>>

FuseNext == GrantAccessCall

FuseSpec == FuseInit /\ [][FuseNext]_vars

----------------------------------------------------------------------------
(* Selector Resolver: the targets of a resource, by mode, over an inventory *)

MaxPods == 3

Pods == 1 .. MaxPods

SelectorModes == {"one", "all", "fixed", "fixed-percent", "random-max-percent"}

\* Value of the selector: a count for fixed, a percentage for the percent modes.
SelectorValues == (1 .. (MaxPods + 1)) \cup {50, 100}

\* An inventory tells of every pod whether it exists and whether the selector
\* matches it.
Inventories == [Pods -> {"absent", "other", "match"}]

Matches(inv) == {p \in Pods : inv[p] = "match"}

\* The ordered list of a set of targets.
RECURSIVE Ordered(_)
Ordered(s) ==
    IF s = {} THEN <<>>
    ELSE LET p == CHOOSE x \in s : \A y \in s : x <= y
         IN  <<p>> \o Ordered(s \ {p})

\* Every way of sampling n of the matches without replacement.
Samples_AtMost(matches, n) == {s \in SUBSET matches : Cardinality(s) <= n}

Samples(matches, n) == {s \in SUBSET matches : Cardinality(s) = n}

\* round(a / b)
Round(a, b) == (2 * a + b) \div (2 * b)

\* A resolution: the targets, and one Record with Phase NotInjected for each.
Selected(s) ==
    [err |-> Nil, targets |-> Ordered(s),
     records |-> [k \in 1 .. Cardinality(s) |->
                     [id |-> Ordered(s)[k], phase |-> NotInjected]]]

SelectFailed(err) == [err |-> err, targets |-> <<>>, records |-> <<>>]

\* fixed: exactly value targets, an error when fewer match.
ResolveFixed_Clamps(matches, value) ==
    IF Cardinality(matches) < value THEN {Selected(matches)}
    ELSE {Selected(s) : s \in Samples(matches, value)}

ResolveFixed(matches, value) ==
    IF Cardinality(matches) < value THEN {SelectFailed("Validation")}
    ELSE {Selected(s) : s \in Samples(matches, value)}

\* The resolutions a mode allows over the matches; the random choices of a mode are
\* what makes them more than one.
Resolve(inv, mode, value) ==
    LET matches == Matches(inv)
        n == Cardinality(matches)
    IN  CASE mode = "one" -> {Selected(s) : s \in Samples(matches, 1)}
          [] mode = "all" -> {Selected(matches)}
          [] mode = "fixed" -> ResolveFixed(matches, value)
          [] mode = "fixed-percent" ->
                {Selected(s) : s \in Samples(matches, Round(value * n, 100))}
          [] mode = "random-max-percent" ->
                UNION {{Selected(s) : s \in Samples(matches, count)} :
                          count \in {c \in 0 .. n : 100 * c <= value * n}}

\* A percentage is at most 100, and mode one needs a match to choose.
Selectors ==
    {s \in [inventory : Inventories, mode : SelectorModes, value : SelectorValues] :
        /\ s.mode \in {"fixed-percent", "random-max-percent"} => s.value \in {50, 100}
        /\ s.mode = "one" => Matches(s.inventory) # {}}

SelectInit ==
    /\ EngineAtRest
    /\ gen = None
    /\ host = None
    /\ sel \in {Some([state |-> s, result |-> None]) : s \in Selectors}
    /\ adm = None
    /\ probe = None
    /\ worker = [w \in Workers |-> ""]
    /\ inflight = {}

\* One resolution of the selector over the inventory.
ResolveTargets ==
    /\ IsSome(sel) /\ Val(sel).result = None
    /\ \E r \in Resolve(Val(sel).state.inventory, Val(sel).state.mode, Val(sel).state.value) :
          sel' = Some([Val(sel) EXCEPT !.result = Some(r)])
    /\ UNCHANGED <<engineVars, gen, host, adm, probe, worker, inflight>>

SelectNext == ResolveTargets

SelectSpec == SelectInit /\ [][SelectNext]_vars

----------------------------------------------------------------------------
(* Admission: EnvoyChaosSpec.Default / Validate, RuntimeMutatorChaosSpec.Validate *)

\* field.Required / field.Invalid on a field of the spec
FieldError(type, field) == [type |-> type, field |-> field]

\* Variant that also fills in the resource-level percentage.
EnvoyDefault_SetsPercentage(spec, root) ==
    [spec EXCEPT !.Protocol = IF @ = "" THEN "grpc" ELSE @,
                 !.Action = IF @ = "" THEN EnvoyFaultAction ELSE @,
                 !.Percentage = IF @ = None THEN Some(100) ELSE @,
                 !.EnvoyConfigNamespace =
                     IF @ = "" /\ IsSome(root) THEN Val(root).Namespace ELSE @]

\* Variant that resets the protocol whatever it was.
EnvoyDefault_ResetsProtocol(spec, root) ==
    [spec EXCEPT !.Protocol = "grpc",
                 !.Action = IF @ = "" THEN EnvoyFaultAction ELSE @,
                 !.EnvoyConfigNamespace =
                     IF @ = "" /\ IsSome(root) THEN Val(root).Namespace ELSE @]

\* EnvoyChaosSpec.Default: root is the EnvoyChaos the spec belongs to, None when the
\* caller passes nil. The percentage is left as it is.
EnvoyDefault(spec, root) ==
    [spec EXCEPT !.Protocol = IF @ = "" THEN "grpc" ELSE @,
                 !.Action = IF @ = "" THEN EnvoyFaultAction ELSE @,
                 !.EnvoyConfigNamespace =
                     IF @ = "" /\ IsSome(root) THEN Val(root).Namespace ELSE @]

\* The strings time.ParseDuration accepts, among those the resources carry.
ParsesAsDuration(str) == str \in {"100ms", "1s", "2h45m"}

\* *p < 0 || *p > 100
PercentageOutOfRange(p) == IsSome(p) /\ (Val(p) < 0 \/ Val(p) > 100)

\* Variant that does not ask for fixedDelay.
EnvoyDelayValidate_FixedDelayOptional(delay) ==
    (IF IsSome(delay.FixedDelay) /\ ~ParsesAsDuration(Val(delay.FixedDelay))
     THEN <<FieldError("Invalid", "delay.fixedDelay")>> ELSE <<>>)
    \o (IF PercentageOutOfRange(delay.Percentage)
        THEN <<FieldError("Invalid", "delay.percentage")>> ELSE <<>>)

\* EnvoyDelayConfig.Validate
EnvoyDelayValidate(delay) ==
    (IF delay.FixedDelay = None THEN <<FieldError("Required", "delay.fixedDelay")>>
     ELSE IF ~ParsesAsDuration(Val(delay.FixedDelay))
     THEN <<FieldError("Invalid", "delay.fixedDelay")>>
     ELSE <<>>)
    \o (IF PercentageOutOfRange(delay.Percentage)
        THEN <<FieldError("Invalid", "delay.percentage")>> ELSE <<>>)

\* Variant that checks a status code only under the protocol that uses it.
EnvoyAbortValidate_ByProtocol(abort, protocol) ==
    (IF protocol = "grpc" /\ abort.GrpcStatus = None /\ abort.HTTPStatus = None
     THEN <<FieldError("Required", "abort")>> ELSE <<>>)
    \o (IF protocol = "http" /\ abort.HTTPStatus = None
        THEN <<FieldError("Required", "abort.httpStatus")>> ELSE <<>>)
    \o (IF PercentageOutOfRange(abort.Percentage)
        THEN <<FieldError("Invalid", "abort.percentage")>> ELSE <<>>)
    \o (IF protocol = "http" /\ IsSome(abort.HTTPStatus)
              /\ (Val(abort.HTTPStatus) < 100 \/ Val(abort.HTTPStatus) > 599)
        THEN <<FieldError("Invalid", "abort.httpStatus")>> ELSE <<>>)
    \o (IF protocol = "grpc" /\ IsSome(abort.GrpcStatus)
              /\ (Val(abort.GrpcStatus) < 0 \/ Val(abort.GrpcStatus) > 16)
        THEN <<FieldError("Invalid", "abort.grpcStatus")>> ELSE <<>>)

\* EnvoyAbortConfig.Validate
EnvoyAbortValidate(abort, protocol) ==
    (IF protocol = "grpc" /\ abort.GrpcStatus = None /\ abort.HTTPStatus = None
     THEN <<FieldError("Required", "abort")>> ELSE <<>>)
    \o (IF protocol = "http" /\ abort.HTTPStatus = None
        THEN <<FieldError("Required", "abort.httpStatus")>> ELSE <<>>)
    \o (IF PercentageOutOfRange(abort.Percentage)
        THEN <<FieldError("Invalid", "abort.percentage")>> ELSE <<>>)
    \o (IF IsSome(abort.HTTPStatus)
              /\ (Val(abort.HTTPStatus) < 100 \/ Val(abort.HTTPStatus) > 599)
        THEN <<FieldError("Invalid", "abort.httpStatus")>> ELSE <<>>)
    \o (IF IsSome(abort.GrpcStatus)
              /\ (Val(abort.GrpcStatus) < 0 \/ Val(abort.GrpcStatus) > 16)
        THEN <<FieldError("Invalid", "abort.grpcStatus")>> ELSE <<>>)

\* EnvoyChaosSpec.Validate: the errors, in the order they are appended.
EnvoyValidate(spec) ==
    (IF spec.Protocol \notin {"", "grpc", "http"}
     THEN <<FieldError("Invalid", "protocol")>> ELSE <<>>)
    \o (CASE spec.Action = EnvoyDelayAction /\ spec.Delay = None ->
                <<FieldError("Required", "delay")>>
          [] spec.Action = EnvoyAbortAction /\ spec.Abort = None ->
                <<FieldError("Required", "abort")>>
          [] spec.Action = EnvoyFaultAction /\ spec.Delay = None /\ spec.Abort = None ->
                <<FieldError("Invalid", "action")>>
          [] OTHER -> <<>>)
    \o (IF IsSome(spec.Delay) THEN EnvoyDelayValidate(Val(spec.Delay)) ELSE <<>>)
    \o (IF IsSome(spec.Abort) THEN EnvoyAbortValidate(Val(spec.Abort), spec.Protocol)
        ELSE <<>>)

\* len(*p) != 0 for a *string
NonEmpty(o) == IsSome(o) /\ Val(o) # ""

\* Variant without the default case of the switch.
MutatorValidate_NoDefaultCase(spec) ==
    (CASE spec.Action = RuntimeMutatorConstantAction ->
             (IF ~NonEmpty(spec.From) THEN <<FieldError("Invalid", "from")>> ELSE <<>>)
             \o (IF ~NonEmpty(spec.To) THEN <<FieldError("Invalid", "to")>> ELSE <<>>)
             \o (IF NonEmpty(spec.Strategy) THEN <<FieldError("Invalid", "strategy")>>
                 ELSE <<>>)
       [] spec.Action \in {RuntimeMutatorOperatorAction, RuntimeMutatorStringAction} ->
             (IF ~NonEmpty(spec.Strategy) THEN <<FieldError("Invalid", "strategy")>>
              ELSE <<>>)
             \o (IF NonEmpty(spec.From) THEN <<FieldError("Invalid", "from")>> ELSE <<>>)
             \o (IF NonEmpty(spec.To) THEN <<FieldError("Invalid", "to")>> ELSE <<>>)
       [] spec.Action = "" -> <<FieldError("Invalid", "action")>>
       [] OTHER -> <<>>)
    \o (IF spec.Class = "" THEN <<FieldError("Invalid", "class")>> ELSE <<>>)
    \o (IF spec.Method = "" THEN <<FieldError("Invalid", "method")>> ELSE <<>>)

\* RuntimeMutatorChaosSpec.Validate
MutatorValidate(spec) ==
    (CASE spec.Action = RuntimeMutatorConstantAction ->
             (IF ~NonEmpty(spec.From) THEN <<FieldError("Invalid", "from")>> ELSE <<>>)
             \o (IF ~NonEmpty(spec.To) THEN <<FieldError("Invalid", "to")>> ELSE <<>>)
             \o (IF NonEmpty(spec.Strategy) THEN <<FieldError("Invalid", "strategy")>>
                 ELSE <<>>)
       [] spec.Action \in {RuntimeMutatorOperatorAction, RuntimeMutatorStringAction} ->
             (IF ~NonEmpty(spec.Strategy) THEN <<FieldError("Invalid", "strategy")>>
              ELSE <<>>)
             \o (IF NonEmpty(spec.From) THEN <<FieldError("Invalid", "from")>> ELSE <<>>)
             \o (IF NonEmpty(spec.To) THEN <<FieldError("Invalid", "to")>> ELSE <<>>)
       [] spec.Action = "" -> <<FieldError("Invalid", "action")>>
       [] OTHER -> <<FieldError("Invalid", "action")>>)
    \o (IF spec.Class = "" THEN <<FieldError("Invalid", "class")>> ELSE <<>>)
    \o (IF spec.Method = "" THEN <<FieldError("Invalid", "method")>> ELSE <<>>)

\* A spec under admission: the resource it belongs to, the spec as submitted, the
\* spec after each Default call so far, and the errors of its validation.
Admission(kind, root, input) ==
    [kind |-> kind, root |-> root, input |-> input, trail |-> <<>>, errs |-> None]

\* Default calls on one spec
MaxDefaults == 2

\* The specs submitted for defaulting: every combination of set and unset fields.
DefaultInputs ==
    {EnvoyChaos("a", "ns", "svc", "", cns, f).Spec :
        cns \in {"", "cns"},
        f \in [Action : {""} \cup EnvoyActions, Protocol : {"", "grpc", "http"},
               Percentage : {None, Some(50)},
               Delay : {None, Some([FixedDelay |-> Some("100ms"), Percentage |-> None])},
               Abort : {None, Some([HTTPStatus |-> None, GrpcStatus |-> Some(14),
                                    Percentage |-> None])}]}

DefaultInit ==
    /\ EngineAtRest
    /\ gen = None
    /\ host = None
    /\ sel = None
    /\ adm \in {Some(Admission("envoy", root, spec)) :
                   root \in {None, Some([Namespace |-> "ns"])}, spec \in DefaultInputs}
    /\ probe = None
    /\ worker = [w \in Workers |-> ""]
    /\ inflight = {}

\* The spec as it is now.
Current(a) == IF a.trail = <<>> THEN a.input ELSE a.trail[Len(a.trail)]

\* in.Default(root, nil)
DefaultCall ==
    /\ IsSome(adm) /\ Val(adm).kind = "envoy"
    /\ Len(Val(adm).trail) < MaxDefaults
    /\ adm' = Some([Val(adm) EXCEPT
                       !.trail = Append(@, EnvoyDefault(Current(Val(adm)), Val(adm).root))])
    /\ UNCHANGED <<engineVars, gen, host, sel, probe, worker, inflight>>

DefaultNext == DefaultCall

DefaultSpec == DefaultInit /\ [][DefaultNext]_vars

\* Percentages and status codes around the limits of their ranges.
EdgePercentages == {None, Some(-1), Some(0), Some(100), Some(101)}

EdgeDelays ==
    {None} \cup {Some([FixedDelay |-> d, Percentage |-> p]) :
                    d \in {None, Some("100ms"), Some("soon")},
                    p \in {None, Some(-1), Some(100)}}

\* Each value of one status code with the other unset and with the other valid.
EdgeStatuses ==
    {<<h, g>> : h \in {None, Some(99), Some(100), Some(599), Some(600)},
                g \in {None, Some(0)}}
    \cup {<<h, g>> : h \in {None, Some(100)},
                     g \in {None, Some(-1), Some(0), Some(16), Some(17)}}

EdgeAborts ==
    {None} \cup {Some([HTTPStatus |-> st[1], GrpcStatus |-> st[2], Percentage |-> p]) :
                    st \in EdgeStatuses, p \in {None, Some(0), Some(101)}}

EnvoyValidateInputs ==
    {EnvoyChaos("a", "ns", "svc", "", "", f).Spec :
        f \in [Action : {""} \cup EnvoyActions, Protocol : {"", "grpc", "http", "tcp"},
               Percentage : EdgePercentages, Delay : EdgeDelays, Abort : EdgeAborts]}

MutatorValidateInputs ==
    [Action : {"", "unknown"} \cup RuntimeMutatorActions,
     Class : {"", "com.example.Calc"}, Method : {"", "add"},
     From : {None, Some(""), Some("100")}, To : {None, Some(""), Some("0")},
     Strategy : {None, Some(""), Some("add-to-subtract")}]

ValidateInit ==
    /\ EngineAtRest
    /\ gen = None
    /\ host = None
    /\ sel = None
    /\ adm \in {Some(Admission("envoy", None, spec)) : spec \in EnvoyValidateInputs}
                  \cup {Some(Admission("mutator", None, spec)) :
                           spec \in MutatorValidateInputs}
    /\ probe = None
    /\ worker = [w \in Workers |-> ""]
    /\ inflight = {}

\* in.Validate(root, path) of an EnvoyChaosSpec
ValidateEnvoy ==
    /\ IsSome(adm) /\ Val(adm).kind = "envoy" /\ Val(adm).errs = None
    /\ adm' = Some([Val(adm) EXCEPT !.errs = Some(EnvoyValidate(Current(Val(adm))))])
    /\ UNCHANGED <<engineVars, gen, host, sel, probe, worker, inflight>>

\* in.Validate(root, path) of a RuntimeMutatorChaosSpec
ValidateMutator ==
    /\ IsSome(adm) /\ Val(adm).kind = "mutator" /\ Val(adm).errs = None
    /\ adm' = Some([Val(adm) EXCEPT !.errs = Some(MutatorValidate(Current(Val(adm))))])
    /\ UNCHANGED <<engineVars, gen, host, sel, probe, worker, inflight>>

ValidateNext == ValidateEnvoy \/ ValidateMutator

ValidateSpec == ValidateInit /\ [][ValidateNext]_vars

----------------------------------------------------------------------------
(* Admission of an EnvoyChaos and the fault filter of the admitted resource *)

\* The specs submitted: set and unset action and protocol over the fault settings.
AdmitInputs ==
    {EnvoyChaos("a", "ns", "svc", "", "", f).Spec :
        f \in [Action : {""} \cup EnvoyActions, Protocol : {"", "grpc", "http"},
               Percentage : {None, Some(30)}, Delay : DelayConfigs, Abort : AbortConfigs]}

AdmitInit ==
    /\ EngineAtRest
    /\ gen = None
    /\ host = None
    /\ sel = None
    /\ adm \in {Some(Admission("envoy", Some([Namespace |-> "ns"]), spec)) :
                   spec \in AdmitInputs}
    /\ probe = None
    /\ worker = [w \in Workers |-> ""]
    /\ inflight = {}

\* The spec under admission was defaulted and then validated without an error.
Accepted == IsSome(adm) /\ Val(adm).trail # <<>> /\ Val(adm).errs = Some(<<>>)

\* The accepted spec is stored as the spec of the resource.
Admit(id) ==
    /\ Accepted
    /\ chaos[id].Spec # Current(Val(adm))
    /\ chaos' = [chaos EXCEPT ![id].Spec = Current(Val(adm))]
    /\ UNCHANGED <<target, records, pending, idx, stopping, deleted, finalizer, configs,
                   last, aside>>

\* The mutating webhook runs before the validating one, and the implementation
\* sees the resource as it was admitted.
AdmitNext ==
    \/ Val(adm).errs = None /\ DefaultCall
    \/ Val(adm).trail # <<>> /\ ValidateEnvoy
    \/ \E id \in ResourceIds : Admit(id)
    \/ \E id \in ResourceIds :
          Accepted /\ chaos[id].Spec = Current(Val(adm)) /\ Generate(id)

AdmitSpec == AdmitInit /\ [][AdmitNext]_vars

----------------------------------------------------------------------------
(* Admission of a RuntimeMutatorChaos and Apply of the admitted resource *)

AdmitMutatorInit ==
    /\ EngineAtRest
    /\ gen = None
    /\ host = None
    /\ sel = None
    /\ adm \in {Some(Admission("mutator", None, spec)) : spec \in MutatorValidateInputs}
    /\ probe = None
    /\ worker = [w \in Workers |-> ""]
    /\ inflight = {}

\* The spec under admission was validated without an error.
Admitted == IsSome(adm) /\ Val(adm).errs = Some(<<>>)

\* The accepted spec is stored as the spec of a resource, its Records naming the
\* containers selected.
AdmitMutator(id) ==
    /\ Admitted /\ Val(adm).kind = "mutator"
    /\ chaos[id].kind # "mutator"
    /\ LET c == [kind |-> "mutator", Name |-> "m", Namespace |-> "ns",
                 Spec |-> Current(Val(adm))]
       IN  /\ chaos' = [chaos EXCEPT ![id] = c]
           /\ \E tgt \in Targets(c) : target' = [target EXCEPT ![id] = tgt]
    /\ UNCHANGED <<records, pending, idx, stopping, deleted, finalizer, configs, last,
                   aside>>

AdmitMutatorNext ==
    \/ ValidateMutator
    \/ \E id \in ResourceIds : AdmitMutator(id)
    \/ \E id \in ResourceIds : \E fail \in MutatorFailPoints : \E crash \in BOOLEAN :
          chaos[id].kind = "mutator" /\ ReconcileApply(id, fail, crash)

AdmitMutatorSpec == AdmitMutatorInit /\ [][AdmitMutatorNext]_vars

----------------------------------------------------------------------------
(* Chaos daemon: runtime-process discovery of the install handlers *)

\* descendants of the root process of a container
MaxChildren == 2

\* What /proc/<pid>/comm holds: None when it cannot be read.
Comms == {None, Some("java\n"), Some("sh\n")}

\* A process tree: the root process of the container and its descendants as
\* util.GetChildProcesses lists them, None when the listing fails. The pid of a
\* process is its position, the root first.
ProcessTrees ==
    [root : Comms,
     children : {None} \cup {Some(c) : c \in UNION {[1 .. n -> Comms] : n \in 0 .. MaxChildren}}]

\* containerPids := append([]uint32{pid}, childPids...), each with its comm
ContainerPids(tree) ==
    LET comms == <<tree.root>> \o (IF IsSome(tree.children) THEN Val(tree.children) ELSE <<>>)
    IN  [k \in 1 .. Len(comms) |-> [pid |-> k, comm |-> comms[k]]]

\* for _, containerPid := range containerPids { ... if name == "java\n" { break } }:
\* the pid found, 0 when there is none.
RECURSIVE FindJava(_)
FindJava(procs) ==
    IF procs = <<>> THEN 0
    ELSE IF Head(procs).comm = Some("java\n") THEN Head(procs).pid
    ELSE FindJava(Tail(procs))

\* The container of a process tree, as the handlers see it.
ProbedContainer(tree) ==
    Container(IF FindJava(ContainerPids(tree)) # 0 THEN "java" ELSE "nojava", "own")

\* The pid the attach tool of a handler is addressed to: javaPid for jattach; for
\* bminstall pid, which stays the root pid when no process is found.
AttachPid(handler, tree) ==
    LET javaPid == FindJava(ContainerPids(tree))
    IN  IF handler = "InstallRuntimeMutator" THEN javaPid
        ELSE IF javaPid # 0 THEN javaPid
        ELSE ContainerPids(tree)[1].pid

\* One install request on the container of a process tree.
ProbeInstall(handler, tree, fail) ==
    LET t == ProbedContainer(tree)
        r == IF handler = "InstallRuntimeMutator"
             THEN InstallRuntimeMutator(t, [EnterNS |-> FALSE], fail)
             ELSE InstallJVMRules(t, [Rule |-> "RULE r", EnterNS |-> FALSE], fail)
    IN  [err |-> r.err, steps |-> r.daemon.steps, pid |-> AttachPid(handler, tree)]

InstallHandlers == {"InstallRuntimeMutator", "InstallJVMRules"}

ProbeInit ==
    /\ EngineAtRest
    /\ gen = None
    /\ host = None
    /\ sel = None
    /\ adm = None
    /\ probe \in {Some([handler |-> h, tree |-> tree, result |-> None]) :
                     h \in InstallHandlers, tree \in ProcessTrees}
    /\ worker = [w \in Workers |-> ""]
    /\ inflight = {}

InstallRequest(fail) ==
    /\ IsSome(probe) /\ Val(probe).result = None
    /\ probe' = Some([Val(probe) EXCEPT
                         !.result = Some(ProbeInstall(Val(probe).handler, Val(probe).tree, fail))])
    /\ UNCHANGED <<engineVars, gen, host, sel, adm, worker, inflight>>

ProbeNext == \E fail \in {"none", "tool"} : InstallRequest(fail)

ProbeSpec == ProbeInit /\ [][ProbeNext]_vars

----------------------------------------------------------------------------
(* Properties *)

IsCall(op) == last.op = op

\* The last call ran into no transient infrastructure failure.
Undisturbed == last.seen \notin {"Transient", "Tool"}

Kind(id) == chaos[id].kind

\* The Implementations whose Apply and Recover are in the source.
SourceKinds == {"envoy", "mutator"}

\* The last step was the call op of one of these Implementations.
SourceCall(op) == last.op = op /\ Kind(last.id) \in SourceKinds

\* C1: every Apply that fails returns NotInjected, and no Apply returns Injected
\* unless the fault its Record stands for (the proxy-config object of the resource,
\* the active mutation agent of the container) is in place when it returns.
C1_InjectedOnlyWithFault ==
    SourceCall("Apply") =>
        /\ (last.err # Nil => last.phase = NotInjected)
        /\ (last.phase = Injected => last.fault)

\* C2: a call changes the Phase of its Record only NotInjected -> Injected (an Apply
\* returning no error) or Injected -> NotInjected (a Recover returning no error);
\* a call that returns an error returns the Phase the Record had before it.
C2_PhaseUnchangedOnError ==
    (SourceCall("Apply") \/ SourceCall("Recover")) =>
        /\ (last.err # Nil => last.phase = last.before)
        /\ (last.phase # last.before =>
               \/ IsCall("Apply") /\ last.err = Nil /\ last.phase = Injected
               \/ IsCall("Recover") /\ last.err = Nil /\ last.phase = NotInjected)

\* C3: a Recover on a Record that is already NotInjected with nothing to undo (the
\* second of two Recover calls in a row, or a Record never injected), and that meets
\* no transient failure, returns (NotInjected, nil) and changes no observable state.
C3_RecoverIdempotent ==
    (SourceCall("Recover") /\ last.before = NotInjected /\ ~last.faultBefore
        /\ Undisturbed) =>
        /\ last.phase = NotInjected
        /\ last.err = Nil
        /\ ~last.changed

\* C4: a Recover whose target is reported not-found by the cluster API or the daemon
\* returns (NotInjected, nil), for every Implementation of the source.
C4_RecoverTargetGone ==
    (SourceCall("Recover") /\ last.seen = "NotFound") =>
        (last.phase = NotInjected /\ last.err = Nil)

\* C5: a released resource (finalizer removed) has no Record with Phase Injected and
\* no Record whose recorded injection has not been undone by a Recover that returned
\* no error: a failing Recover keeps its Record Injected, which blocks the release.
C5_NoReleaseBeforeRecovered ==
    /\ \A id \in Ids :
          ~finalizer[id] =>
              \A i \in Index : records[id][i] = NotInjected /\ ~pending[id][i]
    /\ (IsCall("Recover") /\ last.before = Injected /\ last.err # Nil) =>
          last.phase = Injected

\* C5 witness: the end of a reconcile of a deleted resource whose release is blocked by
\* a Record that a failed Recover has just left Injected.
C5_Witness ==
    \E id \in Ids :
        /\ deleted[id] /\ finalizer[id] /\ idx[id] = NumRecords
        /\ IsCall("Recover") /\ last.id = id /\ last.err # Nil /\ last.before = Injected
        /\ records[id][last.index] = Injected /\ pending[id][last.index]

\* C7: when a resource is released, no fault created for it remains in effect (no
\* proxy-config object, no agent with mutations enabled, no submitted rule), also
\* when one of its Apply calls returned NotInjected after the fault was put in place.
C7_NoFaultAfterRelease ==
    \A id \in Ids :
        (~finalizer[id] /\ Kind(id) \in SourceKinds) =>
            \A i \in Index : ~FaultInPlace(configs, target[id][i], id, chaos[id])

\* C8: for EnvoyChaos, once Recover of index 0 returns no error, no proxy-config object
\* written for the resource exists: Recover deletes at the name and namespace Apply wrote.
C8_RoundTrip ==
    (IsCall("Recover") /\ Kind(last.id) = "envoy" /\ last.index = 0 /\ last.err = Nil) =>
        ~\E o \in configs : o.owner = last.id

\* C8 witness: a Recover returning no error on the Injected Record of an applied resource.
C8_Witness ==
    /\ IsCall("Recover") /\ Kind(last.id) = "envoy" /\ last.index = 0 /\ last.err = Nil
    /\ last.before = Injected /\ last.faultBefore /\ last.changed

C6_EventuallyRecovered ==
    \A id \in ResourceIds : \A i \in Index :
        (Stopped(id) /\ Kind(id) \in SourceKinds /\ records[id][i] = Injected)
            ~> (records[id][i] = NotInjected)

\* C10: in the generated fault filter the percentage of a kind (delay, abort) is
\* the per-kind percentage when that is set, otherwise the resource-level
\* percentage, and no percentage is emitted when neither is set.
C10_PercentagePrecedence ==
    IsSome(gen) =>
        LET spec  == chaos[Val(gen).id].Spec
            fault == Val(gen).fault
            Emitted(section, kindCfg) ==
                LET e == Val(section).percentage
                IN  /\ IsSome(kindCfg.Percentage) =>
                          IsSome(e) /\ Val(e).numerator = Val(kindCfg.Percentage)
                    /\ (~IsSome(kindCfg.Percentage) /\ IsSome(spec.Percentage)) =>
                          IsSome(e) /\ Val(e).numerator = Val(spec.Percentage)
                    /\ (~IsSome(kindCfg.Percentage) /\ ~IsSome(spec.Percentage)) =>
                          ~IsSome(e)
        IN  /\ IsSome(fault.delay) => Emitted(fault.delay, Val(spec.Delay))
            /\ IsSome(fault.abort) => Emitted(fault.abort, Val(spec.Abort))

\* Resource-level 100 with abort.percentage 30: the abort filter carries 30.
C10_Witness ==
    /\ IsSome(gen)
    /\ chaos[Val(gen).id].Spec.Percentage = Some(100)
    /\ IsSome(chaos[Val(gen).id].Spec.Abort)
    /\ Val(chaos[Val(gen).id].Spec.Abort).Percentage = Some(30)
    /\ IsSome(Val(gen).fault.abort)
    /\ Val(Val(Val(gen).fault.abort).percentage).numerator = 30

\* The elements of a sequence.
Range(seq) == {seq[k] : k \in 1 .. Len(seq)}

\* The container and the handler call of the last Apply/Recover.
LastTarget == target[last.id][last.index]

\* The four outputs of a failed install that count as an install that worked.
KnownBenignOutputs ==
    {"Agent JAR loaded but agent failed to initialize",
     "Provider sun.tools.attach.LinuxAttachProvider not found",
     "install java.io.IOException: Non-numeric value found",
     "com.sun.tools.attach.AgentLoadException"}

\* C11: when the install command of InstallJVMRules fails with one of the four known
\* outputs the request goes on to the submit steps, and ends in success with the rule
\* loaded and Apply returning Injected when no later step fails; when an install
\* command (of InstallJVMRules or of InstallRuntimeMutator) fails with any other
\* output the request returns an error, runs no further command, loads nothing
\* and Apply returns NotInjected.
C11_BenignInstallErrors ==
    (IsCall("Apply") /\ last.daemon.called /\ last.daemon.install # "") =>
        IF Kind(last.id) = "jvm" /\ last.daemon.install \in KnownBenignOutputs
        THEN /\ "helper" \in Range(last.daemon.steps)
             /\ last.daemon.output = "" =>
                    /\ last.daemon.err = Nil
                    /\ LastTarget.rule
                    /\ last.seen = Nil => (last.phase = Injected /\ last.err = Nil)
        ELSE /\ last.daemon.err # Nil
             /\ last.daemon.steps[Len(last.daemon.steps)] \in {"install", "jattach"}
             /\ ~last.changed
             /\ last.phase = NotInjected /\ last.err # Nil

\* C11 witness: the attach result code quirk on a first install; the rule is submitted
\* and Apply returns Injected.
C11_Witness ==
    /\ IsCall("Apply") /\ Kind(last.id) = "jvm"
    /\ last.daemon.install = "com.sun.tools.attach.AgentLoadException"
    /\ last.daemon.steps[Len(last.daemon.steps)] = "rules"
    /\ last.phase = Injected /\ last.err = Nil /\ last.fault /\ ~last.faultBefore

\* The last call was a Recover that had UninstallJVMRules run its removal command.
RemovalRun ==
    /\ IsCall("Recover") /\ Kind(last.id) = "jvm"
    /\ last.daemon.called /\ last.daemon.steps = <<"remove">>

\* C12: UninstallJVMRules returns success, changing nothing, when its removal command
\* fails with the output "No rule scripts to remove", and returns an error when the
\* command fails with any other output; a removal of the rule after it has been
\* removed therefore succeeds again.
C12_NothingToRemove ==
    RemovalRun =>
        /\ last.daemon.output = "No rule scripts to remove" =>
               (last.daemon.err = Nil /\ ~last.changed)
        /\ last.daemon.output \notin {"", "No rule scripts to remove"} =>
               (last.daemon.err # Nil /\ ~last.changed)
        /\ last.daemon.output = "" => (last.daemon.err = Nil /\ ~LastTarget.rule)
        /\ (~last.faultBefore /\ LastTarget.agent = "attached"
               /\ last.daemon.output \in {"", "No rule scripts to remove"}) =>
               last.daemon.err = Nil

\* C12 witness: the rule was loaded and has been removed (the agent and its helper
\* are still there); a second removal succeeds on "No rule scripts to remove".
C12_Witness ==
    /\ RemovalRun
    /\ last.daemon.output = "No rule scripts to remove" /\ last.daemon.err = Nil
    /\ LastTarget.agent = "attached" /\ LastTarget.helper /\ ~LastTarget.rule
    /\ last.before = NotInjected /\ last.phase = NotInjected /\ last.err = Nil

\* C13: a Recover of RuntimeMutatorChaos on a container that exists and has nothing to
\* disable (no agent was ever started in its runtime process, or the runtime process
\* has exited), meeting no transient failure, has UninstallRuntimeMutator return
\* success and returns (NotInjected, nil).
C13_NothingToDisable ==
    (IsCall("Recover") /\ Kind(last.id) = "mutator" /\ Undisturbed
        /\ LastTarget.proc # "gone"
        /\ (LastTarget.agent = "none" \/ LastTarget.proc = "nojava")) =>
        /\ last.daemon.called /\ last.daemon.err = Nil
        /\ last.phase = NotInjected /\ last.err = Nil

\* The action of the resource is one its kind knows.
RegisteredAction(c) ==
    IF c.kind = "envoy" THEN c.Spec.Action \in EnvoyActions
    ELSE c.kind = "mutator" => c.Spec.Action \in RuntimeMutatorActions

\* C14: an Apply for a resource whose action is none of the actions of its kind
\* returns NotInjected with an error, and neither calls the daemon nor writes to the
\* cluster API (shown on the calls that meet no infrastructure failure).
C14_UnknownActionFails ==
    (SourceCall("Apply") /\ ~RegisteredAction(chaos[last.id]) /\ last.seen = Nil) =>
        /\ last.phase = NotInjected /\ last.err # Nil
        /\ ~last.daemon.called
        /\ ~last.changed

\* C15: when an Apply or a Recover of RuntimeMutatorChaos returns, the Executor
\* connection it opened is closed, whichever way it returns: with a decode error
\* (no connection was opened), a parameter-check error, a daemon error, an
\* unsuccessful response or success.
C15_ConnectionClosed ==
    ((IsCall("Apply") \/ IsCall("Recover")) /\ Kind(last.id) = "mutator") =>
        /\ last.conn # "open"
        /\ last.conn = "none" <=> (last.seen \in {"Transient", "NotFound"}
                                      /\ ~last.daemon.called)

\* C15 witness: an Apply that returns a parameter-check error after the connection
\* was opened.
C15_Witness ==
    /\ IsCall("Apply") /\ Kind(last.id) = "mutator"
    /\ last.err = "Validation" /\ ~last.daemon.called
    /\ last.conn = "closed"

\* GrantAccess has run on the host.
GrantDone == IsSome(host) /\ IsSome(Val(host).result)

GrantHost == Val(host).state

GrantResult == Val(Val(host).result)

\* The cgroup file is well formed and names the unified hierarchy, with its path, and
\* no v1 devices hierarchy: the cgroup v2 layout.
V2Layout(h) ==
    /\ IsSome(h.cgroup)
    /\ \A k \in 1 .. Len(Val(h.cgroup)) :
          Val(h.cgroup)[k].parts = 3 /\ "devices" \notin Val(h.cgroup)[k].controllers
    /\ \E k \in 1 .. Len(Val(h.cgroup)) :
          Val(h.cgroup)[k].controllers = {} /\ Val(h.cgroup)[k].path # <<>>

Names(path) == SelectSeq(path, LAMBDA x : x # "/")

NoDoubleSeparator(path) ==
    \A k \in 1 .. (Len(path) - 1) : ~(path[k] = "/" /\ path[k + 1] = "/")

\* C17: the file GrantAccess opens is <prefix>/devices/<cgroup-path>/devices.allow
\* for v1 and <prefix>/<cgroup-path>/devices.allow for v2, <prefix> being
\* /host-sys/fs/cgroup, with no two separators in a row: the v2 path "/" gives
\* <prefix>/devices.allow, "/kubepods/burstable/pod123" gives
\* <prefix>/kubepods/burstable/pod123/devices.allow.
C17_DevicesAllowPath ==
    (GrantDone /\ GrantResult.opens # <<>>) =>
        LET found == ScanCgroup(Val(GrantHost.cgroup),
                                [err |-> Nil, deviceCgroupPath |-> <<>>,
                                 isCgroupV2 |-> FALSE])
            layout == IF found.isCgroupV2 THEN <<>> ELSE <<"devices">>
            opened == GrantResult.opens[1]
        IN  /\ Len(GrantResult.opens) = 1
            /\ opened = Join(<<"host-sys", "fs", "cgroup">> \o layout
                                \o Names(found.deviceCgroupPath) \o <<"devices.allow">>)
            /\ NoDoubleSeparator(opened)
            /\ (found.isCgroupV2 /\ found.deviceCgroupPath = RootPath) =>
                   opened = <<"/", "host-sys", "/", "fs", "/", "cgroup", "/", "devices.allow">>
            /\ (found.isCgroupV2
                   /\ found.deviceCgroupPath = Join(<<"kubepods", "burstable", "pod123">>)) =>
                   opened = <<"/", "host-sys", "/", "fs", "/", "cgroup", "/", "kubepods",
                              "/", "burstable", "/", "pod123", "/", "devices.allow">>

\* C17 witness: the rule written on a v2 host whose cgroup path is "/".
C17_Witness ==
    /\ GrantDone /\ V2Layout(GrantHost)
    /\ Val(GrantHost.cgroup) = <<CgroupEntry({}, RootPath)>>
    /\ GrantResult.err = Nil
    /\ GrantResult.written =
           <<[path |-> <<"/", "host-sys", "/", "fs", "/", "cgroup", "/", "devices.allow">>,
              content |-> "c 10:229 rwm"]>>

\* C18: of any one resource at most one Apply or Recover call is in flight: the call
\* in flight is made by the one worker reconciling the resource, on the Record that
\* reconcile has reached, and a worker makes one call at a time.
C18_OneCallPerResource ==
    /\ \A c \in inflight : \A d \in inflight : c.id = d.id => c = d
    /\ \A c \in inflight : worker[c.worker] = c.id /\ c.index = idx[c.id]
    /\ \A v \in Workers : \A w \in Workers : (worker[v] = worker[w] /\ worker[v] # "") => v = w

\* C18 witness: calls of two resources in flight at once, after a Record of one of
\* them has already been injected by an earlier call.
C18_Witness ==
    /\ \E c \in inflight : \E d \in inflight : c.id # d.id
    /\ \E c \in inflight : c.index > 0 /\ records[c.id][0] = Injected

\* The selector has been resolved over its inventory.
Resolved == IsSome(sel) /\ IsSome(Val(sel).result)

Selector == Val(sel).state

Resolution == Val(Val(sel).result)

\* The targets of the inventory the selector matches.
Matching == {p \in Pods : Selector.inventory[p] = "match"}

\* C19: mode fixed with value N resolves, when at least N targets match, exactly N
\* distinct matching targets with one Record each; when fewer than N match it fails
\* with a validation error and creates no Record.
C19_FixedExactlyN ==
    (Resolved /\ Selector.mode = "fixed") =>
        IF Cardinality(Matching) >= Selector.value
        THEN /\ Resolution.err = Nil
             /\ Len(Resolution.targets) = Selector.value
             /\ Cardinality(Range(Resolution.targets)) = Selector.value
             /\ Range(Resolution.targets) \subseteq Matching
             /\ Len(Resolution.records) = Selector.value
             /\ \A k \in 1 .. Selector.value :
                   Resolution.records[k] = [id |-> Resolution.targets[k], phase |-> NotInjected]
        ELSE /\ Resolution.err = "Validation"
             /\ Resolution.targets = <<>>
             /\ Resolution.records = <<>>

\* C19 witness: two of three matching targets selected by mode fixed with value 2.
C19_Witness ==
    /\ Resolved /\ Selector.mode = "fixed" /\ Selector.value = 2
    /\ Cardinality(Matching) = 3
    /\ Len(Resolution.records) = 2

EnvoyValidated == IsSome(adm) /\ Val(adm).kind = "envoy" /\ IsSome(Val(adm).errs)

Submitted == Val(adm).input

Rejected == Val(Val(adm).errs) # <<>>

\* The config the action of an EnvoyChaosSpec needs is missing.
LacksRequiredConfig(spec) ==
    \/ spec.Action = EnvoyDelayAction
          /\ (spec.Delay = None \/ Val(spec.Delay).FixedDelay = None)
    \/ spec.Action = EnvoyAbortAction
          /\ \/ spec.Abort = None
             \/ spec.Protocol = "grpc" /\ Val(spec.Abort).GrpcStatus = None
                   /\ Val(spec.Abort).HTTPStatus = None
             \/ spec.Protocol = "http" /\ Val(spec.Abort).HTTPStatus = None
    \/ spec.Action = EnvoyFaultAction /\ spec.Delay = None /\ spec.Abort = None

InRange(o, low, high) == o = None \/ (Val(o) >= low /\ Val(o) <= high)

\* Every value of an EnvoyChaosSpec is one the API admits.
ValuesInRange(spec) ==
    /\ spec.Protocol \in {"grpc", "http"}
    /\ InRange(spec.Percentage, 0, 100)
    /\ IsSome(spec.Delay) =>
          /\ InRange(Val(spec.Delay).Percentage, 0, 100)
          /\ Val(spec.Delay).FixedDelay \in {Some("100ms")}
    /\ IsSome(spec.Abort) =>
          /\ InRange(Val(spec.Abort).Percentage, 0, 100)
          /\ InRange(Val(spec.Abort).HTTPStatus, 100, 599)
          /\ InRange(Val(spec.Abort).GrpcStatus, 0, 16)
          /\ spec.Protocol = "grpc" =>
                (IsSome(Val(spec.Abort).GrpcStatus) \/ IsSome(Val(spec.Abort).HTTPStatus))
          /\ spec.Protocol = "http" => IsSome(Val(spec.Abort).HTTPStatus)

Numerators(spec) ==
    LET fault == generateFaultConfig(spec)
        Of(section) ==
            IF IsSome(section) /\ IsSome(Val(section).percentage)
            THEN {Val(Val(section).percentage).numerator} ELSE {}
    IN  Of(fault.delay) \cup Of(fault.abort)

\* C22: validation rejects an EnvoyChaosSpec in which the resource-level percentage,
\* delay.percentage or abort.percentage lies outside 0..100, so that the fault filter
\* generated from an accepted spec carries no numerator outside 0..100.
C22_PercentagesInRange ==
    (EnvoyValidated /\ Submitted.Action \in EnvoyActions) =>
        /\ ~Rejected =>
              /\ InRange(Submitted.Percentage, 0, 100)
              /\ IsSome(Submitted.Delay) => InRange(Val(Submitted.Delay).Percentage, 0, 100)
              /\ IsSome(Submitted.Abort) => InRange(Val(Submitted.Abort).Percentage, 0, 100)
        /\ ~Rejected => \A n \in Numerators(Submitted) : n >= 0 /\ n <= 100

\* C23: validation rejects an EnvoyChaosSpec whose abort config has an httpStatus
\* outside 100..599 or a grpcStatus outside 0..16, whatever the action and the
\* protocol, and an abort action with status 100, 599, 0 or 16 and nothing else out
\* of range is accepted.
C23_StatusCodesInRange ==
    EnvoyValidated =>
        /\ (IsSome(Submitted.Abort)
               /\ ~(/\ InRange(Val(Submitted.Abort).HTTPStatus, 100, 599)
                    /\ InRange(Val(Submitted.Abort).GrpcStatus, 0, 16))) => Rejected
        /\ (/\ Submitted.Action = EnvoyAbortAction /\ IsSome(Submitted.Abort)
            /\ ValuesInRange(Submitted)
            /\ \/ Val(Submitted.Abort).HTTPStatus \in {Some(100), Some(599)}
               \/ Val(Submitted.Abort).GrpcStatus \in {Some(0), Some(16)}) => ~Rejected

\* C23 witness: a delay action under http carrying an abort config with grpcStatus 17
\* was rejected for that status alone.
C23_Witness ==
    /\ EnvoyValidated
    /\ Submitted.Action = EnvoyDelayAction /\ Submitted.Protocol = "http"
    /\ IsSome(Submitted.Abort) /\ Val(Submitted.Abort).GrpcStatus = Some(17)
    /\ Val(Val(adm).errs) = <<FieldError("Invalid", "abort.grpcStatus")>>

\* Default has run on an EnvoyChaosSpec.
Defaulted == IsSome(adm) /\ Val(adm).kind = "envoy" /\ Val(adm).trail # <<>>

C25_DefaultFillsEmpty ==
    (Defaulted /\ IsSome(Val(adm).root)) =>
        LET once == Val(adm).trail[1]
        IN  /\ once.Protocol = IF Submitted.Protocol = "" THEN "grpc" ELSE Submitted.Protocol
            /\ once.Action = IF Submitted.Action = "" THEN EnvoyFaultAction
                             ELSE Submitted.Action
            /\ once.EnvoyConfigNamespace =
                  IF Submitted.EnvoyConfigNamespace = "" THEN Val(Val(adm).root).Namespace
                  ELSE Submitted.EnvoyConfigNamespace
            /\ once.Delay = Submitted.Delay /\ once.Abort = Submitted.Abort
            /\ once.TargetService = Submitted.TargetService
            /\ once.TargetNamespace = Submitted.TargetNamespace
            /\ \A k \in 1 .. Len(Val(adm).trail) : Val(adm).trail[k] = once

\* C25 witness: Default has run twice on a spec submitted with http set and with
\* action and envoyConfigNamespace empty.
C25_Witness ==
    /\ Defaulted /\ IsSome(Val(adm).root)
    /\ Len(Val(adm).trail) = 2
    /\ Submitted.Protocol = "http" /\ Submitted.Action = ""
    /\ Submitted.EnvoyConfigNamespace = ""
    /\ Val(adm).trail[2].Protocol = "http"
    /\ Val(adm).trail[2].Action = EnvoyFaultAction
    /\ Val(adm).trail[2].EnvoyConfigNamespace = "ns"

\* The validation of a RuntimeMutatorChaosSpec has run.
MutatorValidated == IsSome(adm) /\ Val(adm).kind = "mutator" /\ IsSome(Val(adm).errs)

\* A parameter that is given: a string that is there and is not empty.
Given(o) == o \notin {None, Some("")}

\* C26: RuntimeMutatorChaosSpec.Validate returns no error exactly when class and
\* method are not empty and either the action is constant with from and to given and
\* no strategy, or the action is operator or string with a strategy given and neither
\* from nor to; an empty or unsupported action is rejected.
C26_MutatorValidateIff ==
    MutatorValidated =>
        /\ ~Rejected <=>
              /\ Submitted.Class # "" /\ Submitted.Method # ""
              /\ \/ /\ Submitted.Action = "constant"
                    /\ Given(Submitted.From) /\ Given(Submitted.To)
                    /\ ~Given(Submitted.Strategy)
                 \/ /\ Submitted.Action \in {"operator", "string"}
                    /\ Given(Submitted.Strategy)
                    /\ ~Given(Submitted.From) /\ ~Given(Submitted.To)
        /\ Submitted.Action \notin {"constant", "operator", "string"} => Rejected

\* C26 witness: an unsupported action with class and method set was rejected for
\* the action alone.
C26_Witness ==
    /\ MutatorValidated
    /\ Submitted.Action = "unknown"
    /\ Submitted.Class # "" /\ Submitted.Method # ""
    /\ Val(Val(adm).errs) = <<FieldError("Invalid", "action")>>

\* The parameters the action of a RuntimeMutatorChaos needs are missing.
LacksParameters(spec) ==
    \/ spec.Action = "constant" /\ (spec.From = None \/ spec.To = None)
    \/ spec.Action \in {"operator", "string"} /\ spec.Strategy = None

\* C27: Apply of a RuntimeMutatorChaos whose action is constant with from or to
\* missing, or operator or string with the strategy missing, returns NotInjected with
\* an error and no install request reaches the daemon; with the parameters of its
\* action present, Apply sends the install request once its connection is open.
C27_ParametersChecked ==
    (last.op = "Apply" /\ Kind(last.id) = "mutator") =>
        LET spec == chaos[last.id].Spec
        IN  /\ LacksParameters(spec) =>
                  /\ last.phase = NotInjected /\ last.err # Nil
                  /\ ~last.daemon.called /\ ~last.changed
            /\ (spec.Action \in RuntimeMutatorActions /\ ~LacksParameters(spec)
                   /\ last.conn # "none") => last.daemon.called

\* C27 witness: Apply of an operator mutation without strategy, on a container whose
\* runtime process is up, returned NotInjected with a validation error.
C27_Witness ==
    /\ last.op = "Apply" /\ Kind(last.id) = "mutator"
    /\ chaos[last.id].Spec.Action = "operator" /\ chaos[last.id].Spec.Strategy = None
    /\ LastTarget.proc = "java"
    /\ last.err = "Validation" /\ last.phase = NotInjected
    /\ last.conn = "closed" /\ ~last.daemon.called

\* C28: the commands of one InstallJVMRules request run in the order install, submit
\* helper, submit rules (after the copy into the container when the request asks for
\* it); the rules are submitted only after an install that succeeded or failed with
\* a known benign output and after the helper was submitted; and a step that fails
\* fatally ends the request with an error, no later step being run.
C28_InstallStepOrder ==
    (last.op = "Apply" /\ Kind(last.id) = "jvm" /\ last.daemon.called) =>
        LET d == last.daemon
            run == SelectSeq(d.steps, LAMBDA x : x # "copy")
            benign == d.install = "" \/ d.install \in KnownBenignOutputs
        IN  /\ run \in {<<>>, <<"install">>, <<"install", "helper">>,
                        <<"install", "helper", "rules">>}
            /\ d.steps \in {run, <<"copy">> \o run}
            /\ Len(run) = 3 => (benign /\ LastTarget.helper)
            /\ ~benign => (d.err # Nil /\ run = <<"install">>)
            /\ Len(run) = 2 => (d.err # Nil /\ d.output # "")
            /\ d.err = Nil => Len(run) = 3
            /\ (d.err # Nil /\ Len(run) = 3) => d.output # ""

\* C28 witness: the helper submit failed after a successful install, the request
\* ended with an error and the rules were not submitted.
C28_Witness ==
    /\ last.op = "Apply" /\ Kind(last.id) = "jvm"
    /\ last.daemon.steps = <<"copy", "install", "helper">>
    /\ last.daemon.install = "" /\ last.daemon.output = "submit failed"
    /\ last.daemon.err = "Tool"
    /\ LastTarget.agent = "attached" /\ ~LastTarget.rule

Probed == IsSome(probe) /\ IsSome(Val(probe).result)

\* The processes of the probed container whose command name is the runtime's.
RuntimePids ==
    {q.pid : q \in {x \in Range(ContainerPids(Val(probe).tree)) : x.comm = Some("java\n")}}

AttachSteps == {"jattach", "install"}

\* C29: the attach tool of an install request is addressed to the first process, the
\* root first and then its descendants, whose command name is the runtime's; when
\* the container has no such process the request fails with the explicit error that
\* none was found and runs no attach tool.
C29_RuntimeProcessDiscovery ==
    Probed =>
        LET result == Val(Val(probe).result)
        IN  /\ (RuntimePids # {} /\ Range(result.steps) \cap AttachSteps # {}) =>
                  /\ result.pid \in RuntimePids
                  /\ \A q \in RuntimePids : result.pid <= q
            /\ RuntimePids = {} =>
                  /\ result.err = "NoJavaProcess"
                  /\ Range(result.steps) \cap AttachSteps = {}

\* The lines of a cgroup file that name the v1 devices controller, and those of
\* the unified hierarchy.
DevicesEntries(file) ==
    {k \in 1 .. Len(file) : file[k].parts = 3 /\ "devices" \in file[k].controllers}

UnifiedEntries(file) ==
    {k \in 1 .. Len(file) : file[k].parts = 3 /\ file[k].controllers = {}}

\* A cgroup file as the kernel writes it: three fields a line, every path set, a
\* controller attached to one hierarchy and one line for the unified hierarchy.
KernelFormat(file) ==
    /\ \A k \in 1 .. Len(file) : file[k].parts = 3 /\ file[k].path # <<>>
    /\ Cardinality(DevicesEntries(file)) <= 1
    /\ Cardinality(UnifiedEntries(file)) <= 1

\* The same lines in every order.
Reorderings(file) ==
    {[k \in 1 .. Len(file) |-> file[p[k]]] :
        p \in {q \in [1 .. Len(file) -> 1 .. Len(file)] :
                  \A i, j \in 1 .. Len(file) : q[i] = q[j] => i = j}}

NothingFound == [err |-> Nil, deviceCgroupPath |-> <<>>, isCgroupV2 |-> FALSE]

\* C31: on a cgroup file in the kernel's format GrantAccess takes the v1 layout and
\* the path of the devices entry whenever the file has one, and the v2 layout and
\* the path of the unified entry only when it has none; the file it opens is the
\* one of that layout and path, and the same lines in any other order give the
\* same layout and path.
C31_DevicesEntryPreferred ==
    (GrantDone /\ IsSome(GrantHost.cgroup) /\ KernelFormat(Val(GrantHost.cgroup))) =>
        LET file == Val(GrantHost.cgroup)
            found == ScanCgroup(file, NothingFound)
        IN  /\ \A k \in DevicesEntries(file) :
                  /\ found.isCgroupV2 = FALSE
                  /\ found.deviceCgroupPath = file[k].path
                  /\ GrantResult.opens = <<FinalPath(file[k].path, FALSE)>>
            /\ DevicesEntries(file) = {} =>
                  \A k \in UnifiedEntries(file) :
                      /\ found.isCgroupV2 = TRUE
                      /\ found.deviceCgroupPath = file[k].path
                      /\ GrantResult.opens \in {<<>>, <<FinalPath(file[k].path, TRUE)>>}
            /\ \A other \in Reorderings(file) : ScanCgroup(other, NothingFound) = found

\* C31 witness: the unified entry comes first and the devices entry second; the rule
\* was written under the v1 layout at the path of the devices entry.
C31_Witness ==
    /\ GrantDone
    /\ GrantHost.cgroup = Some(<<CgroupEntry({}, Join(<<"user.slice">>)),
                                 CgroupEntry({"devices"},
                                             Join(<<"kubepods", "burstable", "pod123">>))>>)
    /\ GrantResult.err = Nil
    /\ GrantResult.written =
           <<[path |-> Join(<<"host-sys", "fs", "cgroup", "devices", "kubepods",
                              "burstable", "pod123", "devices.allow">>),
              content |-> "c 10:229 rwm"]>>

\* The file has a line of fewer than three fields.
HasInvalidEntry(file) == \E k \in 1 .. Len(file) : file[k].parts < 3

\* The file has neither a v1 devices entry nor a unified entry with a path.
NoDevicesHierarchy(file) ==
    /\ DevicesEntries(file) = {}
    /\ \A k \in UnifiedEntries(file) : file[k].path = <<>>

\* C36: when a line of the cgroup file has fewer than three fields GrantAccess
\* returns the invalid-entry error, and when the file has neither a v1 devices entry
\* nor a unified entry with a non-empty path it returns an error; in both cases it
\* opens no devices.allow file and writes nothing.
C36_MalformedCgroupFile ==
    (GrantDone /\ IsSome(GrantHost.cgroup)) =>
        LET file == Val(GrantHost.cgroup)
        IN  /\ HasInvalidEntry(file) => GrantResult = Granted("InvalidEntry", <<>>, <<>>)
            /\ NoDevicesHierarchy(file) =>
                  /\ GrantResult.err \in {"InvalidEntry", "NoDeviceCgroup"}
                  /\ GrantResult.opens = <<>>
                  /\ GrantResult.written = <<>>

\* C36 witness: a devices entry followed by a line of two fields, on a host whose
\* devices.allow would have taken the rule; the call failed on the line.
C36_Witness ==
    /\ GrantDone
    /\ GrantHost.cgroup = Some(<<CgroupEntry({"devices"}, Join(<<"user.slice">>)),
                                 InvalidEntry>>)
    /\ GrantHost.allow = "writable"
    /\ GrantResult = Granted("InvalidEntry", <<>>, <<>>)

\* A unified entry without a path and no other hierarchy, on a host whose
\* devices.allow would have taken the rule; the call failed with nothing found.
C36_WitnessNoHierarchy ==
    /\ GrantDone
    /\ GrantHost.cgroup = Some(<<CgroupEntry({}, <<>>),
                                 CgroupEntry({"cpu", "cpuacct"}, Join(<<"user.slice">>))>>)
    /\ GrantHost.allow = "writable"
    /\ GrantResult = Granted("NoDeviceCgroup", <<>>, <<>>)

\* C35: whatever the action, the generated fault filter has a delay section exactly
\* when delay.fixedDelay is set and an abort section exactly when abort is set, and
\* the same spec under any other action gives the same filter.
C35_SectionsFollowConfigs ==
    IsSome(gen) =>
        LET spec  == chaos[Val(gen).id].Spec
            fault == Val(gen).fault
        IN  /\ IsSome(fault.delay) <=>
                   (IsSome(spec.Delay) /\ IsSome(Val(spec.Delay).FixedDelay))
            /\ IsSome(fault.abort) <=> IsSome(spec.Abort)
            /\ \A action \in EnvoyActions \cup {""} :
                   generateFaultConfig([spec EXCEPT !.Action = action]) = fault

\* C35 witness: an abort action that also carries a delay; the filter has both
\* sections.
C35_Witness ==
    /\ IsSome(gen)
    /\ chaos[Val(gen).id].Spec.Action = EnvoyAbortAction
    /\ IsSome(chaos[Val(gen).id].Spec.Delay)
    /\ IsSome(Val(gen).fault.delay)
    /\ Val(Val(gen).fault.delay).fixedDelay = "1s"
    /\ IsSome(Val(gen).fault.abort)

\* C33: the fault filter generated for a spec of action fault, delay or abort that
\* was defaulted and then accepted by validation has a delay section or an abort
\* section, and its abort section, if any, carries one of grpcStatus and httpStatus
\* and not both.
C33_AdmittedFilterNotEmpty ==
    (IsSome(gen) /\ Accepted /\ chaos[Val(gen).id].Spec = Current(Val(adm))
        /\ Current(Val(adm)).Action \in EnvoyActions) =>
        LET fault == Val(gen).fault
        IN  /\ IsSome(fault.delay) \/ IsSome(fault.abort)
            /\ IsSome(fault.abort) =>
                  IsSome(Val(fault.abort).grpcStatus) # IsSome(Val(fault.abort).httpStatus)

\* C33 witness: a spec submitted without action and protocol, with an abort that
\* sets both status codes; admitted as a grpc fault, its filter carries grpcStatus
\* alone.
C33_Witness ==
    /\ IsSome(gen) /\ Accepted
    /\ Val(adm).input.Action = "" /\ Val(adm).input.Protocol = ""
    /\ chaos[Val(gen).id].Spec = Current(Val(adm))
    /\ IsSome(Val(adm).input.Abort) /\ IsSome(Val(gen).fault.abort)
    /\ Val(Val(adm).input.Abort).HTTPStatus = Some(503)
    /\ Val(Val(adm).input.Abort).GrpcStatus = Some(14)
    /\ Val(Val(gen).fault.abort).grpcStatus = Some(14)
    /\ Val(Val(gen).fault.abort).httpStatus = None

\* C34: Apply of a RuntimeMutatorChaos whose spec the admission validation accepted
\* never fails on the parameters of the action: its check of from, to and strategy
\* passes, and once the connection is open the install request is sent.
C34_AdmittedPassesApplyCheck ==
    (last.op = "Apply" /\ Kind(last.id) = "mutator" /\ Admitted
        /\ chaos[last.id].Spec = Current(Val(adm))) =>
        /\ last.err # "Validation"
        /\ last.conn # "none" => last.daemon.called

\* C34 witness: a constant mutation admitted with from, to and an empty strategy;
\* Apply on a container whose runtime process is up injected it.
C34_Witness ==
    /\ last.op = "Apply" /\ Kind(last.id) = "mutator" /\ Admitted
    /\ chaos[last.id].Spec = Current(Val(adm))
    /\ chaos[last.id].Spec.Action = "constant"
    /\ chaos[last.id].Spec.From = Some("100") /\ chaos[last.id].Spec.To = Some("0")
    /\ chaos[last.id].Spec.Strategy = Some("")
    /\ last.err = Nil /\ last.phase = Injected /\ last.daemon.called

\* The config objects in place that were applied for a resource other than id.
ConfigsOfOthers(id) == {o \in configs : o.owner # id}

\* C32: a Recover call of one EnvoyChaos leaves every proxy-config object applied
\* for another resource as it is, whatever the names, namespaces and target
\* namespaces of the two and whatever calls came before.
C32_RecoverKeepsOthersConfigs ==
    [][last'.op = "Recover" => ConfigsOfOthers(last'.id) \subseteq configs']_vars

====
